---- MODULE Spec2Model ----
(***************************************************************************)
(* libbmc: resolution of plaintext citations into DOIs.                    *)
(*                                                                         *)
(* The module models libbmc.citations.plaintext.get_cited_DOIs together    *)
(* with the helpers it calls (doi.extract_from_text, tools.batch,          *)
(* tools.remove_duplicates, tools.clean_whitespaces, tools.remove_urls).   *)
(*                                                                         *)
(*   Spec       one invocation of get_cited_DOIs(file), from the call to   *)
(*              the return or to the exception that leaves it.             *)
(*   SpecLoop   the CrossRef loop of get_cited_DOIs (plaintext.py 82-99)   *)
(*              entered with a residual queue, against every outcome of    *)
(*              requests.post.                                             *)
(*   SpecBatch  tools.batch(iterable, size) driven as in its docstring,    *)
(*              [list(i) for i in batch(iterable, size)].                  *)
(*   SpecIds    the identifier functions of doi, repositories.arxiv,       *)
(*              repositories.hal and isbn (is_valid, extract_from_text,    *)
(*              to_doi, from_doi) on strings taken by character.           *)
(*   SpecBbl    citations.bbl.get_plaintext_citations on the content of a  *)
(*              .bbl file, against every outcome of the runs of delatex.   *)
(*   SpecCermine  citations.pdf.cermine_dois on every machine, against     *)
(*              every outcome of the service and of the local tool.        *)
(*   SpecDownload  fetcher.download(url, proxies) against every answer of  *)
(*              the network, socket.socket being process-wide.             *)
(*   SpecFind   papers.identifiers.find_identifiers(src) interleaved with  *)
(*              the conversion subprocess it starts.                       *)
(*   SpecEntry  bibtex.get_entry_by_filter on the entries of a file.       *)
(*   SpecTwin   plaintext.get_cited_DOIs and its copy in citations/bbl.py  *)
(*              run side by side on the same citations and the same        *)
(*              answers of the services.                                   *)
(*                                                                         *)
(* A text is a sequence of tokens (words, DOIs, arXiv ids, URLs, runs of   *)
(* whitespace); a Python exception that leaves a function is the state     *)
(* pc = "raised" with its class in exc.                                    *)
(*                                                                         *)
(* The model starts at the call: the import of plaintext.py:8              *)
(* (requests.exception, for requests.exceptions) is taken as resolved.     *)
(* Two things the source does not fix are left open and chosen by Init or  *)
(* by the actions: the interpreter (pep479) and the JSON encoder behind    *)
(* requests.post (PostTypeError against the two actions that send).        *)
(***************************************************************************)
EXTENDS Integers, Sequences, FiniteSets, TLC

\* ------------------------------------------------------------------ bounds
\* Longest input (number of lines / citations) of one invocation.
MaxCitations == 3
\* Longest residual queue the CrossRef loop is entered with.
MaxQueue == 12
\* Number of distinct texts a residual queue is made of.
MaxDistinct == 2
\* Most entries of one "results" list of the matching service.
MaxResults == 3
\* Longest iterable handed to tools.batch.
MaxItems == 21

\* ------------------------------------------------------- program constants
CROSSREF_MAX_BATCH_SIZE == 10

\* ------------------------------------------------------------------ tokens
\* Substrings doi.REGEX matches.
DoiTokens == {"10.1000/a", "10.1000/b"}
\* Substrings arxiv.REGEX matches (with the optional arxiv: prefix).
ArxivTokens == {"arXiv:1506.06690"}
\* Substrings tools.URL_REGEX matches.
UrlTokens == {"http://example.com"}
\* A run of whitespace longer than the single separating blank.
WS == "  "
\* Python's None, as a value of the dois dict.
None == "None"

\* The lines a plaintext file is made of.
Lines ==
    { <<"w1">>,
      <<"w1", "http://example.com">>,
      <<WS, "w2", WS>>,
      <<"w2", "10.1000/a">>,
      <<"10.1000/b", "w1", "10.1000/a">>,
      <<"w1", "arXiv:1506.06690">>,
      <<"10.1000/a", "arXiv:1506.06690">>,
      <<>> }

\* ------------------------------------------------------------ pure helpers
Range(s) == {s[i] : i \in DOMAIN s}

\* A Python list / the value None, tagged so that "is not None" is a test.
PyList(s) == [tag |-> "list", val |-> s]
PyNone == [tag |-> "None", val |-> <<>>]
IsNotNone(v) == v.tag # "None"

\* The orders in which a set can be listed.
Orders(S) ==
    {s \in [1..Cardinality(S) -> S] : \A i, j \in 1..Cardinality(S) : i # j => s[i] # s[j]}

\* tools.clean_whitespaces: ' '.join(text.strip().split()).
clean_whitespaces(text) == SelectSeq(text, LAMBDA t : t # WS)

\* tools.remove_duplicates: list(set(some_list)); the order of a set of strings
\* is whatever the hash seed of the run makes it.
remove_duplicates(some_list) == Orders(Range(some_list))

\* tools.remove_urls: clean_whitespaces(URL_REGEX.sub("", text)).
remove_urls(text) == clean_whitespaces(SelectSeq(text, LAMBDA t : t \notin UrlTokens))

\* doi.REGEX.findall(text).
doi_findall(text) == SelectSeq(text, LAMBDA t : t \in DoiTokens)

\* doi.extract_from_text: the lists it can return, each a Python list.
doi_extract_from_text(text) == {PyList(l) : l \in remove_duplicates(doi_findall(text))}

\* re.sub("arxiv:", "", i, flags=re.IGNORECASE) on a match of arxiv.REGEX.
arxiv_strip_prefix(t) == IF t = "arXiv:1506.06690" THEN "1506.06690" ELSE t

\* arxiv.extract_from_text: the lists it can return.
arxiv_extract_from_text(text) ==
    LET found == SelectSeq(text, LAMBDA t : t \in ArxivTokens)
        canon == [i \in DOMAIN found |-> arxiv_strip_prefix(found[i])]
    IN  {PyList(l) : l \in remove_duplicates(canon)}

\* dict assignment d[k] = v.
Put(d, k, v) == [x \in (DOMAIN d) \cup {k} |-> IF x = k THEN v ELSE d[x]]
EmptyDict == [x \in {} |-> None]

\* Sequences over S of length at most n.
SeqUpTo(S, n) == UNION {[1..k -> S] : k \in 0..n}

\* ------------------------------------------------------------------- state
VARIABLES
    file,                 \* the argument: [isList, lines]
    pep479,               \* the interpreter turns a StopIteration raised inside a
                          \* generator into RuntimeError (Python >= 3.7), or lets it
                          \* end the generator silently (Python < 3.7)
    pc,                   \* position of the invocation
    exc,                  \* class of the exception that left the function, or None
    plaintext_citations,  \* the local of get_cited_DOIs, unbound until assigned
    idx,                  \* index of the next citation of the direct pass
    dois,                 \* the dict that is returned
    crossref_queue,       \* the residual queue
    lookups,              \* repository-metadata lookups made (arxiv ids)
    size,                 \* tools.batch: the size argument
    item,                 \* tools.batch: elements drawn so far from iter(iterable)
    batch,                \* the chain yielded last: [head, left]
    chunks,               \* the lists list(i) made of the yielded chains
    sent,                 \* the request bodies posted to the matching service
    last,                 \* the chunk processed last and how its request ended
    nres,                 \* entries of the current "results" list merged so far
    returned              \* text -> identifiers the current response gave for it

\* The identifier functions (doi, repositories.arxiv, repositories.hal, isbn).
VARIABLES
    scheme,               \* the module whose function is called
    arg,                  \* its argument, a string as the sequence of its characters
    ids,                  \* the list extract_from_text returned
    verdict,              \* the boolean is_valid returned
    value                 \* the string a conversion (to_doi, from_doi) returned

\* citations.bbl.get_plaintext_citations.
VARIABLES
    bbl,                  \* the content of the .bbl file
    bibitems,             \* the local of get_plaintext_citations (bbl.py:70-72)
    tool,                 \* where a delatex binary is and the runs made of it:
                          \* [onPath, bundled, calls]
    cleaned_bbl           \* the list being built at bbl.py:74

\* citations.pdf.cermine and cermine_dois.
VARIABLES
    cermine_env,          \* the arguments and what the machine holds
    cermine_output,       \* what cermine() returned
    plaintext_references  \* the local of cermine_dois (pdf.py:133-138)

\* fetcher.download.
VARIABLES
    url,                  \* the argument url, a string by character
    proxies,              \* the argument proxies: None or a list of strings
    socket_at_call,       \* what socket.socket was when download was called
    socket_socket,        \* the process-wide socket.socket
    default_proxy,        \* the arguments of the last socks.set_default_proxy
    attempts,             \* the calls of _download_helper made: the proxy, the
                          \* socket.socket it ran under, what the server answered
    downloaded            \* what download returned

\* papers.identifiers.find_identifiers.
VARIABLES
    src,                  \* the argument src: the end of the path
    totext,               \* the conversion subprocess: its state, the lines it
                          \* writes, the lines in the pipe of its stdout
    extract_full,         \* the local of find_identifiers (identifiers.py:55)
    found_id,             \* what find_identifiers returned: [type, id]
    valid_identifiers     \* libbmc.__valid_identifiers__ at the call

\* bibtex.get_entry_by_filter.
VARIABLES
    bibtex,               \* bibtex.entries: the entries of the file, in file order
    filter_function,      \* the argument filter_function
    ignore_fields,        \* the argument ignore_fields: None or a list
    matching_entry,       \* the local of get_entry_by_filter
    bib_db                \* what get_entry_by_filter returned

\* citations.bbl.get_cited_DOIs, the copy of the resolver in bbl.py: its locals
\* and its position, next to those of plaintext.get_cited_DOIs.
VARIABLES
    bbl_pc,               \* position of the copy, as pc
    bbl_exc,              \* the exception that left the copy
    bbl_dois,             \* its local dois (bbl.py:86)
    bbl_crossref_queue,   \* its local crossref_queue (bbl.py:87)
    bbl_lookups,          \* the requests its direct pass made
    bbl_item,             \* position of the iterator of its tools.batch
    bbl_batch,            \* its local batch (bbl.py:109)
    bbl_sent              \* the bodies of the requests it made

resolverVars ==
    <<file, pep479, pc, exc, plaintext_citations, idx, dois, crossref_queue, lookups,
      size, item, batch, chunks, sent, last, nres, returned>>
idVars == <<scheme, arg, ids, verdict, value>>
bblVars == <<bbl, bibitems, tool, cleaned_bbl>>
cermineVars == <<cermine_env, cermine_output, plaintext_references>>
downloadVars == <<url, proxies, socket_at_call, socket_socket, default_proxy, attempts, downloaded>>
findVars == <<src, totext, extract_full, found_id, valid_identifiers>>
entryVars == <<bibtex, filter_function, ignore_fields, matching_entry, bib_db>>
twinVars ==
    <<bbl_pc, bbl_exc, bbl_dois, bbl_crossref_queue, bbl_lookups, bbl_item, bbl_batch,
      bbl_sent>>

vars == <<resolverVars, idVars, bblVars, cermineVars, downloadVars, findVars, entryVars, twinVars>>

Unbound == [tag |-> "unbound", val |-> <<>>]
NoChain == [head |-> <<>>, left |-> 0]
NoLast == [chunk |-> <<>>, status |-> 0, result |-> "none"]

\* No identifier function, no adapter called.
NoTool == [onPath |-> FALSE, bundled |-> FALSE, calls |-> <<>>]
NoEnv ==
    [force_api |-> FALSE, override_local |-> FALSE, jar |-> FALSE, pdf |-> FALSE, java |-> FALSE]
IdsIdle == scheme = "none" /\ arg = <<>> /\ ids = <<>> /\ verdict = FALSE /\ value = <<>>
BblIdle == bbl = <<>> /\ bibitems = <<>> /\ tool = NoTool /\ cleaned_bbl = <<>>
CermineIdle ==
    cermine_env = NoEnv /\ cermine_output = Unbound /\ plaintext_references = <<>>
EntryIdle ==
    /\ bibtex = <<>> /\ filter_function = "" /\ ignore_fields = PyNone
    /\ matching_entry = PyNone /\ bib_db = Unbound
NoProcess == [state |-> "none", text |-> <<>>, pipe |-> <<>>]
NotReturned == [type |-> "unbound", id |-> <<>>]
FindIdle ==
    /\ src = "" /\ totext = NoProcess /\ extract_full = Unbound
    /\ found_id = NotReturned /\ valid_identifiers = <<>>
TwinIdle ==
    /\ bbl_pc = "none" /\ bbl_exc = None /\ bbl_dois = EmptyDict
    /\ bbl_crossref_queue = <<>> /\ bbl_lookups = <<>>
    /\ bbl_item = 0 /\ bbl_batch = NoChain /\ bbl_sent = <<>>
DownloadIdle ==
    /\ url = <<>> /\ proxies = PyNone
    /\ socket_at_call = "DEFAULT_SOCKET" /\ socket_socket = "DEFAULT_SOCKET"
    /\ default_proxy = PyNone /\ attempts = <<>> /\ downloaded = Unbound

\* ------------------------------------------------------------- tools.batch
\* What iterating the chain to its end yields: the head, then what is left of
\* islice(item, size) while the shared iterator has elements.
ChainItems(b, iterable, it) ==
    LET n == IF b.left < Len(iterable) - it THEN b.left ELSE Len(iterable) - it
    IN  b.head \o SubSeq(iterable, it + 1, it + n)
ChainAdvance(b, iterable, it) ==
    it + (IF b.left < Len(iterable) - it THEN b.left ELSE Len(iterable) - it)

\* next(batch_iterator) at tools.py:111 has an element to return.
BatchHasNext(iterable, it, sz) == sz > 0 /\ it < Len(iterable)

\* Mutant: the islice is not charged for the element next() drew from it.
BatchYield_UnchargedHead(iterable, it, sz) == [head |-> <<iterable[it + 1]>>, left |-> sz]

\* The chain tools.batch yields: chain([next(batch_iterator)], batch_iterator).
BatchYield(iterable, it, sz) == [head |-> <<iterable[it + 1]>>, left |-> sz - 1]

\* How the generator ends when next(batch_iterator) raises StopIteration.
BatchEndRaises(p) == p

\* -------------------------------------------------- get_cited_DOIs: set-up
\* plaintext.get_plaintext_citations on the content of a file.
get_plaintext_citations(content) == [i \in DOMAIN content |-> clean_whitespaces(content[i])]

\* plaintext.py:56-59: the local is assigned only when the argument is no list.
BindCitations(f) ==
    IF ~f.isList THEN PyList(get_plaintext_citations(f.lines)) ELSE Unbound

\* -------------------------------------------- get_cited_DOIs: direct pass
\* One iteration of the loop of plaintext.py:64-80 on one citation, for one
\* value of doi.extract_from_text: the dict, the queue, the lookups and the
\* exception (None: the iteration ended normally).
DirectIteration(citation, matched_DOIs, d, q, lk) ==
    IF IsNotNone(matched_DOIs)
    THEN IF Len(matched_DOIs.val) = 0
         THEN [dois |-> d, queue |-> q, lookups |-> lk, exc |-> "IndexError"]
         ELSE [dois |-> Put(d, citation, matched_DOIs.val[1]), queue |-> q,
               lookups |-> lk, exc |-> None]
    ELSE \* arxiv.to_DOI and tools.remove_URLs are no attributes of their modules
         [dois |-> d, queue |-> q, lookups |-> lk, exc |-> "AttributeError"]

DirectOutcomes(citation, d, q, lk) ==
    {DirectIteration(citation, m, d, q, lk) : m \in doi_extract_from_text(citation)}

\* ----------------------------------------------------------------- actions
\* Nothing done yet: no exception, empty dict, no request, generator not started.
Fresh ==
    /\ exc = None
    /\ idx = 0
    /\ dois = EmptyDict /\ lookups = <<>>
    /\ item = 0 /\ batch = NoChain
    /\ chunks = <<>> /\ sent = <<>> /\ last = NoLast /\ nres = 0
    /\ returned = EmptyDict

Init ==
    /\ file \in [isList : BOOLEAN, lines : SeqUpTo(Lines, MaxCitations)]
    /\ pep479 \in BOOLEAN
    /\ pc = "call"
    /\ plaintext_citations = Unbound
    /\ crossref_queue = <<>>
    /\ size = CROSSREF_MAX_BATCH_SIZE
    /\ Fresh
    /\ IdsIdle /\ BblIdle /\ CermineIdle /\ DownloadIdle /\ FindIdle /\ EntryIdle /\ TwinIdle

\* plaintext.py:56-64: bind the locals and enter the direct pass.
Preprocess ==
    /\ pc = "call"
    /\ plaintext_citations' = BindCitations(file)
    /\ dois' = EmptyDict
    /\ crossref_queue' = <<>>
    /\ IF plaintext_citations'.tag = "unbound"
       THEN pc' = "raised" /\ exc' = "UnboundLocalError" /\ idx' = idx
       ELSE /\ exc' = exc
            /\ idx' = 1
            /\ pc' = IF Len(plaintext_citations'.val) = 0 THEN "loop" ELSE "direct"
    /\ UNCHANGED <<file, pep479, lookups, size, item, batch, chunks, sent, last, nres,
                   returned>>
    /\ UNCHANGED <<idVars, bblVars, cermineVars, downloadVars, findVars, entryVars, twinVars>>

\* plaintext.py:64-80: one citation of the direct pass.
DirectPass ==
    /\ pc = "direct"
    /\ \E o \in DirectOutcomes(plaintext_citations.val[idx], dois, crossref_queue, lookups) :
          /\ dois' = o.dois
          /\ crossref_queue' = o.queue
          /\ lookups' = o.lookups
          /\ IF o.exc # None
             THEN pc' = "raised" /\ exc' = o.exc /\ idx' = idx
             ELSE /\ exc' = exc
                  /\ idx' = idx + 1
                  /\ pc' = IF idx = Len(plaintext_citations.val) THEN "loop" ELSE "direct"
    /\ UNCHANGED <<file, pep479, plaintext_citations, size, item, batch, chunks, sent,
                   last, nres, returned>>
    /\ UNCHANGED <<idVars, bblVars, cermineVars, downloadVars, findVars, entryVars, twinVars>>

\* plaintext.py:83 and tools.py:108-111: the for statement asks the generator for
\* the next batch; the generator yields a chain, or its next() raises
\* StopIteration inside it and the loop ends (return dois, plaintext.py:99) or
\* RuntimeError leaves get_cited_DOIs.
BatchNext ==
    /\ pc = "loop"
    /\ IF BatchHasNext(crossref_queue, item, size)
       THEN /\ batch' = BatchYield(crossref_queue, item, size)
            /\ item' = item + 1
            /\ pc' = "body"
            /\ exc' = exc
       ELSE /\ batch' = batch
            /\ item' = item
            /\ IF BatchEndRaises(pep479)
               THEN pc' = "raised" /\ exc' = "RuntimeError"
               ELSE pc' = "returned" /\ exc' = exc
    /\ UNCHANGED <<file, pep479, plaintext_citations, idx, dois, crossref_queue, lookups,
                   size, chunks, sent, last, nres, returned>>
    /\ UNCHANGED <<idVars, bblVars, cermineVars, downloadVars, findVars, entryVars, twinVars>>

Next == Preprocess \/ DirectPass \/ BatchNext

Spec == Init /\ [][Next]_vars

\* ------------------------------------------- SpecBatch: tools.batch alone
NoFile == [isList |-> FALSE, lines |-> <<>>]

\* [list(i) for i in batch([1, ..., k], size)]: crossref_queue holds the iterable.
InitBatch ==
    /\ file = NoFile
    /\ pep479 \in BOOLEAN
    /\ pc = "loop"
    /\ plaintext_citations = Unbound
    /\ crossref_queue \in {[i \in 1..k |-> i] : k \in 0..MaxItems}
    /\ size \in 1..CROSSREF_MAX_BATCH_SIZE
    /\ Fresh
    /\ IdsIdle /\ BblIdle /\ CermineIdle /\ DownloadIdle /\ FindIdle /\ EntryIdle /\ TwinIdle

\* list(i): the comprehension exhausts the chain it was handed.
ListBatch ==
    /\ pc = "body"
    /\ chunks' = Append(chunks, ChainItems(batch, crossref_queue, item))
    /\ item' = ChainAdvance(batch, crossref_queue, item)
    /\ batch' = NoChain
    /\ pc' = "loop"
    /\ UNCHANGED <<file, pep479, exc, plaintext_citations, idx, dois, crossref_queue,
                   lookups, size, sent, last, nres, returned>>
    /\ UNCHANGED <<idVars, bblVars, cermineVars, downloadVars, findVars, entryVars, twinVars>>

NextBatch == BatchNext \/ ListBatch

SpecBatch == InitBatch /\ [][NextBatch]_vars

\* --------------------------------- SpecLoop: the CrossRef loop (82-99) alone
WordNames == <<"w1", "w2", "w3", "w4">>
QueueText(i) == <<WordNames[i]>>
\* A text the service echoes that is no text of the queue.
OtherText == <<"other">>

\* The residual queues: k texts, cycling through p distinct ones.
QueueInputs ==
    {[i \in 1..k |-> QueueText(((i - 1) % p) + 1)] : k \in 0..MaxQueue, p \in 1..MaxDistinct}

InitLoop ==
    /\ file = NoFile
    /\ pep479 \in BOOLEAN
    /\ pc = "loop"
    /\ plaintext_citations = PyList(<<>>)
    /\ crossref_queue \in QueueInputs
    /\ size = CROSSREF_MAX_BATCH_SIZE
    /\ Fresh
    /\ IdsIdle /\ BblIdle /\ CermineIdle /\ DownloadIdle /\ FindIdle /\ EntryIdle /\ TwinIdle

\* A key a JSON object does not have.
Missing == "<missing>"
StatusCodes == {200, 500}
\* The entries of a "results" list: an object with or without "text" and "doi",
\* or a value that is no object.
ResultEntries ==
    [isDict : BOOLEAN,
     text : {QueueText(i) : i \in 1..MaxDistinct} \cup {OtherText, <<Missing>>},
     doi : {Missing, "10.1000/a"}]

\* plaintext.py:97-98: for i in batch: dois[i] = None.
SetNone(d, items) ==
    [x \in (DOMAIN d) \cup Range(items) |-> IF x \in Range(items) THEN None ELSE d[x]]

\* Mutant: the identifier of an entry is dropped, every merged text gets None.
MergeEntry_DropsDoi(d, result) ==
    IF ~result.isDict
    THEN [dois |-> d, exc |-> "TypeError"]
    ELSE IF result.text = <<Missing>>
         THEN [dois |-> d, exc |-> "KeyError"]
         ELSE [dois |-> Put(d, result.text, None), exc |-> None]

\* plaintext.py:88-93 on one entry of the results: the dict, and the exception
\* that leaves the inner try (None: none).
MergeEntry(d, result) ==
    IF ~result.isDict
    THEN [dois |-> d, exc |-> "TypeError"]
    ELSE IF result.text = <<Missing>>
         THEN [dois |-> d, exc |-> "KeyError"]
         ELSE IF result.doi # Missing
              THEN [dois |-> Put(d, result.text, result.doi), exc |-> None]
              ELSE [dois |-> Put(d, result.text, None), exc |-> None]

\* The identifier an entry gives for its text (None: none).
EntryId(result) == IF result.doi # Missing THEN result.doi ELSE None

\* requests.post(url, json=batch) encodes its json argument before anything is
\* sent, and batch is the itertools.chain tools.batch yielded.  The encoder of
\* the standard library (and simplejson's) does not take a chain: TypeError,
\* which no except clause of get_cited_DOIs names.  PostRequestException and
\* PostResponse are the outcomes behind an encoder that lists any iterable of
\* strings into the JSON array the service expects.
PostTypeError ==
    /\ pc = "body"
    /\ pc' = "raised"
    /\ exc' = "TypeError"
    /\ last' = [chunk |-> ChainItems(batch, crossref_queue, item), status |-> 0,
                result |-> "TypeError"]
    /\ UNCHANGED <<file, pep479, plaintext_citations, idx, dois, crossref_queue, lookups,
                   size, item, batch, chunks, sent, nres, returned>>
    /\ UNCHANGED <<idVars, bblVars, cermineVars, downloadVars, findVars, entryVars, twinVars>>

\* The request body is the chain listed; then the request fails with a
\* RequestException and the handler of plaintext.py:94-98 runs on what the
\* chain has left.
PostRequestException ==
    /\ pc = "body"
    /\ LET body == ChainItems(batch, crossref_queue, item)
           it == ChainAdvance(batch, crossref_queue, item)
       IN  /\ sent' = Append(sent, body)
           /\ dois' = SetNone(dois, ChainItems(NoChain, crossref_queue, it))
           /\ item' = it
           /\ last' = [chunk |-> body, status |-> 0, result |-> "RequestException"]
    /\ batch' = NoChain
    /\ pc' = "loop"
    /\ UNCHANGED <<file, pep479, exc, plaintext_citations, idx, crossref_queue, lookups,
                   size, chunks, nres, returned>>
    /\ UNCHANGED <<idVars, bblVars, cermineVars, downloadVars, findVars, entryVars, twinVars>>

\* The request gets a response (any status: none is looked at) and r.json() is
\* evaluated: ValueError on a body that is no JSON, KeyError on an object
\* without "results", TypeError on a JSON value that is no object, else the
\* results are iterated.
PostResponse ==
    /\ pc = "body"
    /\ \E status \in StatusCodes, kind \in {"not_json", "no_results", "not_object", "results"} :
          LET body == ChainItems(batch, crossref_queue, item)
              it == ChainAdvance(batch, crossref_queue, item)
          IN  /\ sent' = Append(sent, body)
              /\ item' = it
              /\ IF kind = "results"
                 THEN /\ pc' = "merge" /\ exc' = exc /\ dois' = dois
                      /\ last' = [chunk |-> body, status |-> status, result |-> "merging"]
                 ELSE IF kind = "not_object"
                 THEN /\ pc' = "raised" /\ exc' = "TypeError" /\ dois' = dois
                      /\ last' = [chunk |-> body, status |-> status, result |-> "TypeError"]
                 ELSE /\ pc' = "loop" /\ exc' = exc
                      /\ dois' = SetNone(dois, ChainItems(NoChain, crossref_queue, it))
                      /\ last' = [chunk |-> body, status |-> status,
                                  result |-> IF kind = "not_json" THEN "ValueError"
                                             ELSE "KeyError"]
    /\ batch' = NoChain
    /\ nres' = 0
    /\ returned' = EmptyDict
    /\ UNCHANGED <<file, pep479, plaintext_citations, idx, crossref_queue, lookups, size,
                   chunks>>
    /\ UNCHANGED <<idVars, bblVars, cermineVars, downloadVars, findVars, entryVars, twinVars>>

\* plaintext.py:87-93: the next entry of the results list.
MergeResult ==
    /\ pc = "merge"
    /\ nres < MaxResults
    /\ \E result \in ResultEntries :
          LET o == MergeEntry(dois, result)
          IN  /\ IF o.exc = None
                 THEN /\ dois' = o.dois
                      /\ pc' = "merge" /\ exc' = exc /\ last' = last
                      /\ nres' = nres + 1
                      /\ returned' =
                            Put(returned, result.text,
                                (IF result.text \in DOMAIN returned
                                 THEN returned[result.text] ELSE {}) \cup {EntryId(result)})
                 ELSE IF o.exc = "KeyError"
                 THEN \* caught at plaintext.py:94; the chain has nothing left
                      /\ dois' = SetNone(o.dois, ChainItems(batch, crossref_queue, item))
                      /\ pc' = "loop" /\ exc' = exc
                      /\ last' = [last EXCEPT !.result = "KeyError"]
                      /\ nres' = nres /\ returned' = returned
                 ELSE /\ dois' = o.dois
                      /\ pc' = "raised" /\ exc' = o.exc
                      /\ last' = [last EXCEPT !.result = o.exc]
                      /\ nres' = nres /\ returned' = returned
    /\ UNCHANGED <<file, pep479, plaintext_citations, idx, crossref_queue, lookups, size,
                   item, batch, chunks, sent>>
    /\ UNCHANGED <<idVars, bblVars, cermineVars, downloadVars, findVars, entryVars, twinVars>>

\* The results list is exhausted: the body of the for statement is done.
MergeEnd ==
    /\ pc = "merge"
    /\ pc' = "loop"
    /\ last' = [last EXCEPT !.result = "ok"]
    /\ UNCHANGED <<file, pep479, exc, plaintext_citations, idx, dois, crossref_queue,
                   lookups, size, item, batch, chunks, sent, nres, returned>>
    /\ UNCHANGED <<idVars, bblVars, cermineVars, downloadVars, findVars, entryVars, twinVars>>

NextLoop ==
    BatchNext \/ PostTypeError \/ PostRequestException \/ PostResponse \/ MergeResult
    \/ MergeEnd

SpecLoop == InitLoop /\ [][NextLoop]_vars

\* ================================================================== claims
Terminal == {"returned", "raised"}

\* The citations an invocation is to resolve: the list handed in, or the
\* cleaned lines of the content handed in.
InputCitations(f) == IF f.isList THEN f.lines ELSE get_plaintext_citations(f.lines)

\* The DOIs a text contains.
DoisIn(text) == Range(doi_findall(text))

\* The chunks of a sequence q for chunk size sz, by position: chunk j holds the
\* elements (j-1)*sz+1 .. min(j*sz, Len(q)).
CeilDiv(k, sz) == (k + sz - 1) \div sz
Chunking(q, sz) ==
    [j \in 1..CeilDiv(Len(q), sz) |->
        SubSeq(q, (j - 1) * sz + 1, IF j * sz < Len(q) THEN j * sz ELSE Len(q))]

RECURSIVE Flatten(_)
Flatten(ss) == IF ss = <<>> THEN <<>> ELSE Head(ss) \o Flatten(Tail(ss))

\* C1 (Spec): every invocation on a non-empty input ends by returning a map,
\* and every raw citation text of the input is a key of that map.
C1_EveryCitationIsKey ==
    (pc \in Terminal /\ InputCitations(file) # <<>>) =>
        /\ pc = "returned"
        /\ \A c \in Range(InputCitations(file)) : c \in DOMAIN dois

\* C2 (Spec): for a non-empty input the returned map has exactly as many keys
\* as the input has distinct raw texts.
C2_KeyCountIsDistinctCount ==
    (pc \in Terminal /\ InputCitations(file) # <<>>) =>
        /\ pc = "returned"
        /\ Cardinality(DOMAIN dois) = Cardinality(Range(InputCitations(file)))

C6_DoiCitationsResolvedOffline ==
    /\ plaintext_citations.tag = "list" =>
          \A i \in 1..Len(plaintext_citations.val) :
              (i < idx /\ DoisIn(plaintext_citations.val[i]) # {}) =>
                  /\ plaintext_citations.val[i] \in DOMAIN dois
                  /\ dois[plaintext_citations.val[i]] \in DoisIn(plaintext_citations.val[i])
                  /\ remove_urls(plaintext_citations.val[i]) \notin Range(crossref_queue)
    /\ (/\ pc \in Terminal
        /\ InputCitations(file) # <<>>
        /\ \A c \in Range(InputCitations(file)) : DoisIn(c) # {}) =>
          /\ pc = "returned"
          /\ sent = <<>>
          /\ lookups = <<>>
          /\ \A c \in Range(InputCitations(file)) : c \in DOMAIN dois /\ dois[c] \in DoisIn(c)

\* C7 (Spec): the direct pass does not abort on a citation without a DOI: once
\* it is past such a citation, the citation is a key of the map (an arXiv id
\* was found in it) and not in the queue, or its URL-stripped text is queued.
C7_NoDoiCitationGoesOn ==
    plaintext_citations.tag = "list" =>
        \A i \in 1..Len(plaintext_citations.val) :
            LET c == plaintext_citations.val[i]
            IN  DoisIn(c) = {} =>
                    /\ ~(pc = "raised" /\ idx = i)
                    /\ i < idx =>
                          IF \E l \in arxiv_extract_from_text(c) : l.val # <<>>
                          THEN c \in DOMAIN dois /\ remove_urls(c) \notin Range(crossref_queue)
                          ELSE remove_urls(c) \in Range(crossref_queue)

\* C8 (SpecBatch): once tools.batch is exhausted it has yielded ceil(K/size)
\* chunks of at most size elements, the last of K mod size elements (size when
\* K is a positive multiple of size), and the chunks in order make up the
\* iterable.
C8_BatchChunks ==
    pc \in Terminal =>
        LET K == Len(crossref_queue)
            n == Len(chunks)
        IN  /\ n = CeilDiv(K, size)
            /\ \A j \in 1..n : Len(chunks[j]) >= 1 /\ Len(chunks[j]) <= size
            /\ n > 0 => Len(chunks[n]) = (IF K % size = 0 THEN size ELSE K % size)
            /\ Flatten(chunks) = crossref_queue

\* Three chunks of sizes 10, 10, 1 were yielded from 21 elements.
C8_Witness ==
    /\ pc \in Terminal
    /\ size = CROSSREF_MAX_BATCH_SIZE
    /\ Len(crossref_queue) = 2 * CROSSREF_MAX_BATCH_SIZE + 1
    /\ Len(chunks) = 3
    /\ Len(chunks[3]) = 1

\* C9 (SpecBatch): tools.batch stops normally once its iterable is exhausted:
\* no exception leaves the generator.
C9_BatchStopsNormally == pc # "raised"

C11_SameMapEveryRun ==
    \A c \in DOMAIN dois :
        \A m \in doi_extract_from_text(c) : m.val # <<>> => dois[c] = m.val[1]

\* C12 (Spec): handed an already parsed list of citations, the resolver ends by
\* returning a map whose keys are exactly the citations of that list.
C12_ListResolvedAsGiven ==
    (file.isList /\ pc \in Terminal) =>
        /\ pc = "returned"
        /\ DOMAIN dois = Range(file.lines)

\* The lines of a content that hold something besides whitespace.
NonEmptyLines(content) == SelectSeq(content, LAMBDA l : clean_whitespaces(l) # <<>>)

\* C20 (Spec): the plaintext adapter returns the whitespace-cleaned non-empty
\* lines of its input, one citation each, in line order, and no empty string.
C20_OneCitationPerNonEmptyLine ==
    (~file.isList /\ plaintext_citations.tag = "list") =>
        /\ plaintext_citations.val =
              [i \in DOMAIN NonEmptyLines(file.lines) |->
                  clean_whitespaces(NonEmptyLines(file.lines)[i])]
        /\ \A i \in DOMAIN plaintext_citations.val : plaintext_citations.val[i] # <<>>


\* ====================================================== identifier functions
\* A string is the sequence of its characters.
Digits == {"0", "1", "2", "3", "4", "5", "6", "7", "8", "9"}
UpperCase == <<"A", "B", "C", "D", "E", "F", "G", "H", "I", "J", "K", "L", "M", "N", "O", "P", "Q", "R", "S", "T", "U", "V", "W", "X", "Y", "Z">>
LowerCase == <<"a", "b", "c", "d", "e", "f", "g", "h", "i", "j", "k", "l", "m", "n", "o", "p", "q", "r", "s", "t", "u", "v", "w", "x", "y", "z">>

\* The character classes \d, \w and \s of re.
IsDigit(c) == c \in Digits
IsWord(c) == c \in Digits \cup Range(UpperCase) \cup Range(LowerCase) \cup {"_"}
IsSpace(c) == c \in {" ", "\n", "\t"}

\* (?![\"&\'])\S, the characters of the suffix of a DOI (doi.REGEX).
DoiSuffixChar(c) == ~IsSpace(c) /\ c \notin {"\"", "&", "'"}
\* The characters of an ISBN-like string.
IsbnChar(c) == IsDigit(c) \/ c \in {"-", "X"}

\* The character classes runs are made of.
InClass(class, c) ==
    CASE class = "digit" -> IsDigit(c)
      [] class = "nonspace" -> ~IsSpace(c)
      [] class = "doisuffix" -> DoiSuffixChar(c)
      [] class = "isbn" -> IsbnChar(c)
      [] class = "space" -> IsSpace(c)
      [] class = "line" -> c # "\n"

\* The character as re.IGNORECASE compares it.
Lower(c) ==
    IF c \in Range(UpperCase) THEN LowerCase[CHOOSE i \in DOMAIN UpperCase : UpperCase[i] = c]
    ELSE c

\* A greedy run: how many characters from position p on are of the class.
Run(s, p, class) ==
    IF p < 1 \/ p > Len(s) THEN 0
    ELSE LET e == CHOOSE e \in (p - 1)..Len(s) :
                      /\ \A i \in p..e : InClass(class, s[i])
                      /\ (e = Len(s) \/ ~InClass(class, s[e + 1]))
         IN  e - (p - 1)

\* The literal lit stands at position p of s (as written / ignoring case).
Lit(s, p, lit) ==
    /\ p >= 1 /\ p + Len(lit) - 1 <= Len(s)
    /\ SubSeq(s, p, p + Len(lit) - 1) = lit
LitI(s, p, lit) ==
    /\ p >= 1 /\ p + Len(lit) - 1 <= Len(s)
    /\ \A i \in 1..Len(lit) : Lower(s[p + i - 1]) = Lower(lit[i])

\* \b between the characters e and e + 1 of s.
WordBoundary(s, e) ==
    (e >= 1 /\ e <= Len(s) /\ IsWord(s[e])) # (e + 1 >= 1 /\ e + 1 <= Len(s) /\ IsWord(s[e + 1]))

\* The concatenation of a sequence of strings.
RECURSIVE Concat(_)
Concat(ss) == IF ss = <<>> THEN <<>> ELSE Head(ss) \o Concat(Tail(ss))

\* ---------------------------------------------------------- repositories.hal
HalPrefix == <<"h", "a", "l", "-">>
HalVersion == <<",", " ", "v", "e", "r", "s", "i", "o", "n", " ">>
HalDigits == 8

\* hal.REGEX, ((hal-\d{8})((, version (\d+))|v(\d+))?), tried at position p of
\* s: the position of the last character of the match, 0 when there is none.
hal_REGEX_at(s, p) ==
    IF ~(Lit(s, p, HalPrefix) /\ Run(s, p + Len(HalPrefix), "digit") >= HalDigits)
    THEN 0
    ELSE LET e == p + Len(HalPrefix) + HalDigits - 1
             long == Run(s, e + 1 + Len(HalVersion), "digit")
             short == Run(s, e + 2, "digit")
         IN  IF Lit(s, e + 1, HalVersion) /\ long >= 1 THEN e + Len(HalVersion) + long
             ELSE IF Lit(s, e + 1, <<"v">>) /\ short >= 1 THEN e + 1 + short
             ELSE e


\* ----------------------------------------------------------------------- doi
DoiDirectory == <<"1", "0", ".">>
DoiMinRegistrant == 4

\* (?:[.][0-9]+)* from position q on: the position after the last group.
RECURSIVE DoiSubdivisions(_, _)
DoiSubdivisions(s, q) ==
    IF Lit(s, q, <<".">>) /\ Run(s, q + 1, "digit") >= 1
    THEN DoiSubdivisions(s, q + 1 + Run(s, q + 1, "digit"))
    ELSE q

\* doi.REGEX, \b(10[.][0-9]{4,}(?:[.][0-9]+)*/(?:(?![\"&\'])\S)+)\b, tried at
\* position p of s: the position of the last character of the match (the
\* longest suffix that ends on a word boundary), 0 when there is none.
doi_REGEX_at(s, p) ==
    IF ~(WordBoundary(s, p - 1) /\ Lit(s, p, DoiDirectory)) THEN 0
    ELSE LET registrant == Run(s, p + Len(DoiDirectory), "digit")
             slash == DoiSubdivisions(s, p + Len(DoiDirectory) + registrant)
             suffix == Run(s, slash + 1, "doisuffix")
             ends == {e \in (slash + 1)..(slash + suffix) : WordBoundary(s, e)}
         IN  IF registrant < DoiMinRegistrant \/ ~Lit(s, slash, <<"/">>) \/ ends = {}
             THEN 0
             ELSE CHOOSE e \in ends : \A f \in ends : f <= e

\* --------------------------------------------------------- repositories.arxiv
ArxivPrefix == <<"a", "r", "x", "i", "v", ":">>
\* Some of the categories ARXIV_IDENTIFIER_BEFORE_2007 lists; their "." is the
\* regular expression's, it stands for any character.
ArxivCategories == <<<<"h", "e", "p", "-", "t", "h">>, <<"m", "a", "t", "h", "-", "p", "h">>, <<"m", "a", "t", "h", ".", "G", "T">>>>

\* A category pattern stands at position q of s.
ArxivCategoryAt(s, q, cat) ==
    /\ q >= 1 /\ q + Len(cat) - 1 <= Len(s)
    /\ \A i \in 1..Len(cat) : cat[i] = "." \/ Lower(s[q + i - 1]) = Lower(cat[i])

\* ARXIV_IDENTIFIER_FROM_2007, \d{4}\.\d{4,5}(v\d+)?, at position q: the
\* position of the last character, 0 when there is no match.
arxiv_FROM_2007_at(s, q) ==
    IF ~(Run(s, q, "digit") >= 4 /\ Lit(s, q + 4, <<".">>) /\ Run(s, q + 5, "digit") >= 4)
    THEN 0
    ELSE LET number == IF Run(s, q + 5, "digit") >= 5 THEN 5 ELSE 4
             e == q + 4 + number
             version == Run(s, e + 2, "digit")
         IN  IF LitI(s, e + 1, <<"v">>) /\ version >= 1 THEN e + 1 + version ELSE e

\* ARXIV_IDENTIFIER_BEFORE_2007, (category|...)/\d+, at position q.
arxiv_BEFORE_2007_at(s, q) ==
    LET cats == {i \in DOMAIN ArxivCategories :
                    /\ ArxivCategoryAt(s, q, ArxivCategories[i])
                    /\ Lit(s, q + Len(ArxivCategories[i]), <<"/">>)
                    /\ Run(s, q + Len(ArxivCategories[i]) + 1, "digit") >= 1}
    IN  IF cats = {} THEN 0
        ELSE LET i == CHOOSE i \in cats : \A j \in cats : i <= j
                 slash == q + Len(ArxivCategories[i])
             IN  slash + Run(s, slash + 1, "digit")

\* The identifier alternative of arxiv.REGEX at position q.
arxiv_identifier_at(s, q) ==
    IF arxiv_FROM_2007_at(s, q) # 0 THEN arxiv_FROM_2007_at(s, q)
    ELSE arxiv_BEFORE_2007_at(s, q)

\* arxiv.REGEX, ((arxiv:)?((FROM_2007)|(BEFORE_2007))) with re.IGNORECASE, tried
\* at position p: with the prefix first, then without it.
arxiv_REGEX_at(s, p) ==
    IF LitI(s, p, ArxivPrefix) /\ arxiv_identifier_at(s, p + Len(ArxivPrefix)) # 0
    THEN arxiv_identifier_at(s, p + Len(ArxivPrefix))
    ELSE arxiv_identifier_at(s, p)

\* Mutant: the pattern substituted is "arxiv", the colon stays.
arxiv_sub_prefix_KeepsColon(i) ==
    IF LitI(i, 1, <<"a", "r", "x", "i", "v">>) THEN SubSeq(i, 6, Len(i)) ELSE i

\* re.sub("arxiv:", "", i, flags=re.IGNORECASE): every occurrence is removed.
RECURSIVE arxiv_sub_prefix(_)
arxiv_sub_prefix(i) ==
    IF i = <<>> THEN <<>>
    ELSE IF LitI(i, 1, ArxivPrefix)
         THEN arxiv_sub_prefix(SubSeq(i, Len(ArxivPrefix) + 1, Len(i)))
         ELSE <<Head(i)>> \o arxiv_sub_prefix(Tail(i))


\* ---------------------------------------------------------------------- isbn
\* isbnlib is no part of the source.  Its functions are modelled as far as the
\* doctests of isbn.py (lines 21-43, 59-60 and 100-101) and the ISBN check
\* digits fix them: an ISBN-like string is a run of digits, hyphens and X that
\* holds 10 or 13 digits, and the hyphens of a masked ISBN are those of the
\* registration ranges listed in IsbnRanges.
DigitChars == <<"0", "1", "2", "3", "4", "5", "6", "7", "8", "9">>
DigitValue(c) == IF c = "X" THEN 10 ELSE (CHOOSE i \in DOMAIN DigitChars : DigitChars[i] = c) - 1
StripHyphens(s) == SelectSeq(s, LAMBDA c : c # "-")

\* None, where a string is expected.
NoneStr == <<"None">>

RECURSIVE SumTo(_, _)
SumTo(f, n) == IF n = 0 THEN 0 ELSE f[n] + SumTo(f, n - 1)

\* The check digit of a 13-digit and of a 10-digit ISBN.
IsIsbn13(d) ==
    /\ Len(d) = 13 /\ \A i \in 1..13 : IsDigit(d[i])
    /\ SumTo([i \in 1..13 |-> DigitValue(d[i]) * (IF i % 2 = 1 THEN 1 ELSE 3)], 13) % 10 = 0
IsIsbn10(d) ==
    /\ Len(d) = 10 /\ \A i \in 1..9 : IsDigit(d[i])
    /\ IsDigit(d[10]) \/ d[10] = "X"
    /\ SumTo([i \in 1..10 |-> DigitValue(d[i]) * (11 - i)], 10) % 11 = 0

\* The words of a text, split at blanks.
RECURSIVE Words(_)
Words(s) ==
    IF s = <<>> THEN <<>>
    ELSE IF IsSpace(Head(s)) THEN Words(Tail(s))
    ELSE LET n == Run(s, 1, "nonspace")
         IN  <<SubSeq(s, 1, n)>> \o Words(SubSeq(s, n + 1, Len(s)))

\* The ISBN-like string a word starts with, <<>> when it starts with none.
IsbnLikeOf(word) ==
    LET like == SubSeq(word, 1, Run(word, 1, "isbn"))
    IN  IF Len(StripHyphens(like)) \in {10, 13} THEN like ELSE <<>>

\* isbnlib.get_isbnlike(text).
isbnlib_get_isbnlike(t) ==
    SelectSeq([i \in DOMAIN Words(t) |-> IsbnLikeOf(Words(t)[i])], LAMBDA l : l # <<>>)

\* isbnlib.get_canonical_isbn(isbnlike): the digits of the first ISBN-like
\* string when its check digit is right, else None.
isbnlib_get_canonical_isbn(isbnlike) ==
    IF isbnlib_get_isbnlike(isbnlike) = <<>> THEN NoneStr
    ELSE LET c == StripHyphens(isbnlib_get_isbnlike(isbnlike)[1])
         IN  IF IsIsbn10(c) \/ IsIsbn13(c) THEN c ELSE NoneStr

\* isbnlib.notisbn(isbnlike).
isbnlib_notisbn(isbnlike) == isbnlib_get_canonical_isbn(isbnlike) = NoneStr

\* The ISBNs whose hyphenation the model knows, by their parts.
IsbnRanges ==
    { <<<<"9", "7", "8">>, <<"3">>, <<"1", "6">>, <<"1", "4", "8", "4", "1", "0">>, <<"0">>>>,
      <<<<"9", "7", "8">>, <<"0">>, <<"1", "3">>, <<"6", "0", "9", "1", "8", "1">>, <<"3">>>>,
      <<<<"9", "7", "8">>, <<"0">>, <<"3", "0", "6">>, <<"4", "0", "6", "1", "5">>, <<"7">>>>,
      <<<<"9", "7", "8">>, <<"1">>, <<"2", "3", "4">>, <<"5", "6", "7", "8", "9">>, <<"7">>>>,
      <<<<"9", "7", "9">>, <<"1", "0">>, <<"9", "0", "6", "3", "6">>, <<"0", "7">>, <<"1">>>>,
      <<<<"0">>, <<"1", "3">>, <<"6", "0", "9", "1", "8", "1">>, <<"4">>>>,
      <<<<"1">>, <<"2", "3", "4">>, <<"5", "6", "7", "8", "9">>, <<"X">>>> }

\* The strings of ss joined by sep.
RECURSIVE Join(_, _)
Join(ss, sep) ==
    IF ss = <<>> THEN <<>>
    ELSE IF Len(ss) = 1 THEN ss[1]
    ELSE ss[1] \o sep \o Join(Tail(ss), sep)

\* The parts of a canonical ISBN, <<>> for one of no known range.
IsbnParts(canonical) ==
    IF \E ps \in IsbnRanges : Concat(ps) = canonical
    THEN CHOOSE ps \in IsbnRanges : Concat(ps) = canonical
    ELSE <<>>

\* isbnlib.mask(canonical).
isbnlib_mask(canonical) ==
    IF IsbnParts(canonical) = <<>> THEN NoneStr ELSE Join(IsbnParts(canonical), <<"-">>)

\* isbnlib.doi(isbn), the ISBN-A of a 13-digit ISBN:
\* 10.<prefix>.<group><publisher>/<title><check digit>.
isbnlib_doi(isbn) ==
    LET ps == IsbnParts(isbn)
    IN  <<"1", "0", ".">> \o ps[1] \o <<".">> \o ps[2] \o ps[3] \o <<"/">> \o ps[4] \o ps[5]

\* isbn.is_valid (isbn.py:45-49).
isbn_is_valid(isbn_id) ==
    /\ ~isbnlib_notisbn(isbn_id)
    /\ \/ isbnlib_get_canonical_isbn(isbn_id) = isbn_id
       \/ isbnlib_mask(isbnlib_get_canonical_isbn(isbn_id)) = isbn_id

\* isbn.extract_from_text (isbn.py:62-64).
isbn_extract_from_text(t) ==
    LET likes == isbnlib_get_isbnlike(t)
        isbns == [i \in DOMAIN likes |-> isbnlib_get_canonical_isbn(likes[i])]
    IN  SelectSeq(isbns, LAMBDA i : i # NoneStr)

\* isbn.to_doi (isbn.py:103).
isbn_to_doi(isbn_identifier) == isbnlib_doi(isbn_identifier)

\* Mutant: the directory indicator "10" is not cut off.
isbn_from_doi_Unsliced(doi_identifier) ==
    SelectSeq(doi_identifier, LAMBDA c : c \in Digits \cup {"x", "X"})

\* isbn.from_doi (isbn.py:128).
isbn_from_doi(doi_identifier) ==
    SelectSeq(SubSeq(doi_identifier, 3, Len(doi_identifier)),
              LAMBDA c : c \in Digits \cup {"x", "X"})


\* ------------------------------------------- the four schemes, side by side
Schemes == {"doi", "arxiv", "isbn", "hal"}
RegexSchemes == {"doi", "arxiv", "hal"}

\* The REGEX of a module tried at position p of s.
REGEX_at(sch, s, p) ==
    CASE sch = "doi" -> doi_REGEX_at(s, p)
      [] sch = "arxiv" -> arxiv_REGEX_at(s, p)
      [] sch = "hal" -> hal_REGEX_at(s, p)

\* REGEX.findall(text), as the list of the whole matches: the text is scanned
\* from the left, a match is taken where one starts and the scan goes on
\* behind it.
RECURSIVE REGEX_findall(_, _, _)
REGEX_findall(sch, s, p) ==
    IF p > Len(s) THEN <<>>
    ELSE IF REGEX_at(sch, s, p) = 0 THEN REGEX_findall(sch, s, p + 1)
    ELSE <<SubSeq(s, p, REGEX_at(sch, s, p))>> \o REGEX_findall(sch, s, REGEX_at(sch, s, p) + 1)

\* Mutant: the match is not compared with the string.
REGEX_is_valid_AnyMatch(sch, x) == REGEX_at(sch, x, 1) # 0

\* match = REGEX.match(x); (match is not None) and (match.group(0) == x).
REGEX_is_valid(sch, x) ==
    REGEX_at(sch, x, 1) # 0 /\ SubSeq(x, 1, REGEX_at(sch, x, 1)) = x

\* is_valid of doi.py:50-51, arxiv.py:272-273, hal.py:35-36 and isbn.py:45-49.
is_valid(sch, x) == IF sch = "isbn" THEN isbn_is_valid(x) ELSE REGEX_is_valid(sch, x)

\* Mutant: arxiv.extract_from_text removes the duplicates before the prefix.
extract_from_text_DedupFirst(sch, t) ==
    CASE sch = "isbn" -> {isbn_extract_from_text(t)}
      [] sch = "arxiv" ->
            {[i \in DOMAIN l |-> arxiv_sub_prefix(l[i])] :
                l \in remove_duplicates(REGEX_findall(sch, t, 1))}
      [] OTHER -> remove_duplicates(REGEX_findall(sch, t, 1))

\* extract_from_text of doi.py:64, arxiv.py:320-322, hal.py:49-50 and
\* isbn.py:62-64: the lists it can return.
extract_from_text(sch, t) ==
    CASE sch = "isbn" -> {isbn_extract_from_text(t)}
      [] sch = "arxiv" ->
            LET found == REGEX_findall(sch, t, 1)
            IN  remove_duplicates([i \in DOMAIN found |-> arxiv_sub_prefix(found[i])])
      [] OTHER -> remove_duplicates(REGEX_findall(sch, t, 1))

\* ----------------------------------------------------------------- SpecIds
\* Most pieces a text is put together from.
MaxPieces == 3

\* The pieces the texts handed to a scheme's functions are put together from.
Pieces(sch) ==
    CASE sch = "doi" ->
            { <<"1", "0", ".", "1", "2", "0", "9", "/">>,
      <<"1", "0", ".", "1", "2", ".", "3", "/">>,
      <<"1", "0", ".", "1", "0", "1", "6", ".", "1", "2", "/", "b">>,
      <<"a", "-", "5">>,
      <<".">>,
      <<"\"">>,
      <<" ">> }
      [] sch = "arxiv" ->
            { <<"a", "r", "X", "i", "v", ":", "1", "5", "0", "6", ".", "0", "6", "6", "9", "0">>,
      <<"1", "5", "0", "6", ".", "0", "6", "6", "9", "0">>,
      <<"v", "1">>,
      <<"m", "a", "t", "h", ".", "G", "T", "/", "0", "3", "0", "9", "1", "3", "6">>,
      <<"a", "r", "x", "i", "v", ":">>,
      <<"b", "a", "r">>,
      <<" ">> }
      [] sch = "hal" ->
            { <<"h", "a", "l", "-", "0", "1", "2", "5", "8", "7", "5", "4">>,
      <<"v", "2">>,
      <<",", " ", "v", "e", "r", "s", "i", "o", "n", " ", "1">>,
      <<"7">>,
      <<"f", "o", "o", "b", "a", "r">>,
      <<" ">> }
      [] sch = "isbn" ->
            { <<"9", "7", "8", "-", "3", "-", "1", "6", "-", "1", "4", "8", "4", "1", "0", "-", "0">>,
      <<"9", "7", "8", "3", "1", "6", "1", "4", "8", "4", "1", "0", "0">>,
      <<"a", "a">>,
      <<"0", "1", "3", "6", "0", "9", "1", "8", "1", "4">>,
      <<"0", "1", "3", "6", "0", "9", "1", "8", "1", "2">>,
      <<"9", "7", "8", "0", "1", "3", "6", "0", "9", "1", "8", "1", "7">>,
      <<"1", "2", "3", "4", "5", "6", "7", "8", "9", "X">>,
      <<" ">> }

Texts(sch) == {Concat(ps) : ps \in SeqUpTo(Pieces(sch), MaxPieces)}

\* The 13-digit ISBNs to_doi is called with.
Isbn13s == {Concat(ps) : ps \in {qs \in IsbnRanges : Len(qs) = 5}}

\* What the calls of SpecIds leave alone.
idsRest ==
    <<file, pep479, exc, plaintext_citations, idx, dois, crossref_queue, lookups, size,
      item, batch, chunks, sent, last, nres, returned, bblVars, cermineVars, downloadVars, findVars, entryVars, twinVars>>

\* One call of one function of one scheme.
InitIds ==
    /\ scheme \in Schemes
    /\ arg \in Texts(scheme) \cup (IF scheme = "isbn" THEN Isbn13s ELSE {})
    /\ ids = <<>> /\ verdict = FALSE /\ value = <<>>
    /\ file = NoFile /\ pep479 = FALSE /\ pc = "call"
    /\ plaintext_citations = Unbound /\ crossref_queue = <<>>
    /\ size = CROSSREF_MAX_BATCH_SIZE
    /\ Fresh /\ BblIdle /\ CermineIdle /\ DownloadIdle /\ FindIdle /\ EntryIdle /\ TwinIdle

\* is_valid(arg).
IsValid ==
    /\ pc = "call"
    /\ verdict' = is_valid(scheme, arg)
    /\ pc' = "is_valid"
    /\ UNCHANGED <<scheme, arg, ids, value, idsRest>>

\* extract_from_text(arg).
ExtractFromText ==
    /\ pc = "call"
    /\ ids' \in extract_from_text(scheme, arg)
    /\ pc' = "extract_from_text"
    /\ UNCHANGED <<scheme, arg, verdict, value, idsRest>>

\* isbn.to_doi(arg), arg a valid 13-digit ISBN.
ToDoi ==
    /\ pc = "call"
    /\ scheme = "isbn" /\ IsIsbn13(arg)
    /\ value' = isbn_to_doi(arg)
    /\ pc' = "to_doi"
    /\ UNCHANGED <<scheme, arg, ids, verdict, idsRest>>

\* isbn.from_doi on the DOI to_doi returned.
FromDoi ==
    /\ pc = "to_doi"
    /\ value' = isbn_from_doi(value)
    /\ pc' = "from_doi"
    /\ UNCHANGED <<scheme, arg, ids, verdict, idsRest>>

NextIds == IsValid \/ ExtractFromText \/ ToDoi \/ FromDoi

SpecIds == InitIds /\ [][NextIds]_vars


\* ------------------------------------------------- claims on the identifiers
\* A string is made of digits only, and of at least one.
AllDigits(s) == s # <<>> /\ \A i \in DOMAIN s : IsDigit(s[i])

\* [0-9]{4,}(?:[.][0-9]+)* as a language: groups of digits separated by single
\* dots, the first of at least four digits.
DoiRegistrantForm(r) ==
    /\ Len(r) >= DoiMinRegistrant
    /\ \A i \in DOMAIN r : IsDigit(r[i]) \/ r[i] = "."
    /\ \A i \in 1..DoiMinRegistrant : IsDigit(r[i])
    /\ r[Len(r)] # "."
    /\ \A i \in 1..(Len(r) - 1) : ~(r[i] = "." /\ r[i + 1] = ".")

\* The whole of x is a string of the language of the scheme's pattern.
WholeMatch(sch, x) ==
    CASE sch = "hal" ->
            /\ Lit(x, 1, HalPrefix)
            /\ Len(x) >= Len(HalPrefix) + HalDigits
            /\ AllDigits(SubSeq(x, Len(HalPrefix) + 1, Len(HalPrefix) + HalDigits))
            /\ LET rest == SubSeq(x, Len(HalPrefix) + HalDigits + 1, Len(x))
               IN  \/ rest = <<>>
                   \/ Lit(rest, 1, HalVersion)
                      /\ AllDigits(SubSeq(rest, Len(HalVersion) + 1, Len(rest)))
                   \/ Lit(rest, 1, <<"v">>) /\ AllDigits(Tail(rest))
      [] sch = "doi" ->
            /\ Lit(x, 1, DoiDirectory)
            /\ \E j \in DOMAIN x :
                  /\ x[j] = "/"
                  /\ DoiRegistrantForm(SubSeq(x, Len(DoiDirectory) + 1, j - 1))
                  /\ j < Len(x)
                  /\ \A i \in (j + 1)..Len(x) : DoiSuffixChar(x[i])
            /\ IsWord(x[Len(x)])
      [] sch = "arxiv" ->
            \E r \in {x} \cup (IF LitI(x, 1, ArxivPrefix)
                               THEN {SubSeq(x, Len(ArxivPrefix) + 1, Len(x))} ELSE {}) :
                \/ /\ Len(r) >= 9
                   /\ AllDigits(SubSeq(r, 1, 4)) /\ r[5] = "."
                   /\ \E k \in {4, 5} :
                         /\ Len(r) >= 5 + k
                         /\ AllDigits(SubSeq(r, 6, 5 + k))
                         /\ \/ Len(r) = 5 + k
                            \/ Lower(r[6 + k]) = "v" /\ AllDigits(SubSeq(r, 7 + k, Len(r)))
                \/ \E i \in DOMAIN ArxivCategories :
                      /\ ArxivCategoryAt(r, 1, ArxivCategories[i])
                      /\ Lit(r, Len(ArxivCategories[i]) + 1, <<"/">>)
                      /\ AllDigits(SubSeq(r, Len(ArxivCategories[i]) + 2, Len(r)))
      [] sch = "isbn" -> x # <<>> /\ IsbnLikeOf(x) = x

\* The identifier a written form stands for.
Canonical(sch, i) ==
    CASE sch = "arxiv" -> arxiv_sub_prefix(i)
      [] sch = "isbn" -> StripHyphens(i)
      [] OTHER -> i

NoIdentifierTwice(sch, l) ==
    \A i, j \in DOMAIN l : i # j => Canonical(sch, l[i]) # Canonical(sch, l[j])

\* C13 (SpecIds): every identifier extract_from_text returned is accepted by
\* the is_valid of the same scheme.
C13_ExtractedAreValid ==
    pc = "extract_from_text" => \A i \in DOMAIN ids : is_valid(scheme, ids[i])

\* Two arXiv ids were extracted from a text that starts with the arxiv: prefix.
C13_Witness ==
    /\ pc = "extract_from_text" /\ scheme = "arxiv"
    /\ LitI(arg, 1, ArxivPrefix) /\ Len(ids) = 2

\* C14 as claimed (SpecIds): for each of the four schemes is_valid is true
\* exactly of the strings that match the scheme's pattern as a whole.
C14_ValidIffWholeMatch ==
    pc = "is_valid" => (verdict = WholeMatch(scheme, arg))

\* C14 as amended (SpecIds): for DOI, arXiv and HAL is_valid is true exactly of
\* the strings that match the pattern as a whole; for ISBN it is true exactly
\* of the ISBN-like strings whose check digit is right and that are written
\* digits-only or with the hyphens of their mask.
C14_ValidIffWholeMatchOrIsbnForm ==
    pc = "is_valid" =>
        IF scheme \in RegexSchemes THEN verdict = WholeMatch(scheme, arg)
        ELSE verdict =
                /\ WholeMatch(scheme, arg)
                /\ IsIsbn10(StripHyphens(arg)) \/ IsIsbn13(StripHyphens(arg))
                /\ arg = StripHyphens(arg) \/ arg = isbnlib_mask(StripHyphens(arg))

\* A HAL id followed by something else was rejected although the pattern
\* matches at its start.
C14_Witness ==
    /\ pc = "is_valid" /\ scheme = "hal"
    /\ ~verdict /\ hal_REGEX_at(arg, 1) # 0 /\ hal_REGEX_at(arg, 1) < Len(arg)

\* C15 as claimed (SpecIds): for each of the four schemes the list
\* extract_from_text returned holds no identifier twice, whatever the written
\* forms it occurs in.
C15_NoIdentifierTwice ==
    pc = "extract_from_text" => NoIdentifierTwice(scheme, ids)

\* C15 as amended (SpecIds): for DOI, arXiv and HAL the list holds no
\* identifier twice; for ISBN it holds the canonical form of every ISBN of the
\* text whose check digit is right, once per occurrence and in text order.
C15_NoIdentifierTwiceButIsbn ==
    pc = "extract_from_text" =>
        IF scheme \in RegexSchemes THEN NoIdentifierTwice(scheme, ids)
        ELSE LET right == SelectSeq(isbnlib_get_isbnlike(arg),
                                    LAMBDA l : IsIsbn10(StripHyphens(l)) \/ IsIsbn13(StripHyphens(l)))
             IN  ids = [i \in DOMAIN right |-> StripHyphens(right[i])]

\* One id was returned for a text that holds it with and without the prefix.
C15_Witness ==
    /\ pc = "extract_from_text" /\ scheme = "arxiv"
    /\ Len(REGEX_findall(scheme, arg, 1)) = 2
    /\ REGEX_findall(scheme, arg, 1)[1] # REGEX_findall(scheme, arg, 1)[2]
    /\ Len(ids) = 1

\* C16 (SpecIds): from_doi gives back the 13-digit ISBN to_doi was called with;
\* the DOI of 9783161484100 is 10.978.316/1484100.
C16_IsbnDoiRoundTrip ==
    /\ pc = "from_doi" => value = arg
    /\ (pc = "to_doi" /\ arg = <<"9", "7", "8", "3", "1", "6", "1", "4", "8", "4", "1", "0", "0">>) =>
          value = <<"1", "0", ".", "9", "7", "8", ".", "3", "1", "6", "/", "1", "4", "8", "4", "1", "0", "0">>

\* The round trip of a 979 ISBN is done.
C16_Witness ==
    /\ pc = "from_doi"
    /\ arg = <<"9", "7", "9", "1", "0", "9", "0", "6", "3", "6", "0", "7", "1">>
    /\ value = <<"9", "7", "9", "1", "0", "9", "0", "6", "3", "6", "0", "7", "1">>


\* ============================================================ citations.bbl
\* tools.clean_whitespaces on a string given by its characters:
\* ' '.join(text.strip().split()).
str_clean_whitespaces(t) == Join(Words(t), <<" ">>)

\* str.strip().
Strip(s) ==
    LET inked == {i \in DOMAIN s : ~IsSpace(s[i])}
    IN  IF inked = {} THEN <<>>
        ELSE SubSeq(s, CHOOSE i \in inked : \A j \in inked : i <= j,
                       CHOOSE i \in inked : \A j \in inked : j <= i)

BibitemOpen == <<"\\", "b", "i", "b", "i", "t", "e", "m", "{">>
EndTheBibliography == <<"\\", "e", "n", "d", "{", "t", "h", "e", "b", "i", "b", "l", "i", "o", "g", "r", "a", "p", "h", "y", "}">>

\* BIBITEMS_REGEX, \\bibitem\{.+?\}, tried at position p of s: the position of
\* the closing brace (the first one behind at least one character, on the same
\* line), 0 when there is no match.
BIBITEMS_REGEX_at(s, p) ==
    IF ~Lit(s, p, BibitemOpen) THEN 0
    ELSE LET q == p + Len(BibitemOpen)
             closing == {j \in (q + 1)..Len(s) :
                            s[j] = "}" /\ \A i \in q..(j - 1) : s[i] # "\n"}
         IN  IF closing = {} THEN 0 ELSE CHOOSE j \in closing : \A k \in closing : j <= k

\* BIBITEMS_REGEX.split(s): the text before the first match, between the
\* matches and behind the last one.  p is the scan position, from the start
\* of the part being read.
RECURSIVE BIBITEMS_REGEX_split(_, _, _)
BIBITEMS_REGEX_split(s, p, from) ==
    IF p > Len(s) THEN <<SubSeq(s, from, Len(s))>>
    ELSE IF BIBITEMS_REGEX_at(s, p) = 0 THEN BIBITEMS_REGEX_split(s, p + 1, from)
    ELSE <<SubSeq(s, from, p - 1)>>
         \o BIBITEMS_REGEX_split(s, BIBITEMS_REGEX_at(s, p) + 1, BIBITEMS_REGEX_at(s, p) + 1)

\* ENDTHEBIBLIOGRAPHY_REGEX.sub("", i): \\end\{thebibliography}.* is cut out,
\* up to the end of its line.
RECURSIVE ENDTHEBIBLIOGRAPHY_REGEX_sub(_)
ENDTHEBIBLIOGRAPHY_REGEX_sub(i) ==
    IF i = <<>> THEN <<>>
    ELSE IF Lit(i, 1, EndTheBibliography)
         THEN ENDTHEBIBLIOGRAPHY_REGEX_sub(
                  SubSeq(i, Len(EndTheBibliography) + Run(i, Len(EndTheBibliography) + 1, "line") + 1,
                         Len(i)))
         ELSE <<Head(i)>> \o ENDTHEBIBLIOGRAPHY_REGEX_sub(Tail(i))

\* Mutant: the part before the first \bibitem is kept.
bbl_bibitems_KeepsPreamble(bbl_content) ==
    LET split == BIBITEMS_REGEX_split(bbl_content, 1, 1)
    IN  [k \in DOMAIN split |-> Strip(ENDTHEBIBLIOGRAPHY_REGEX_sub(split[k]))]

\* bbl.py:70-72: the bibitems of a content.
bbl_bibitems(bbl_content) ==
    LET split == Tail(BIBITEMS_REGEX_split(bbl_content, 1, 1))
    IN  [k \in DOMAIN split |-> Strip(ENDTHEBIBLIOGRAPHY_REGEX_sub(split[k]))]

\* Mutant: a run of delatex that fails gives the empty citation.
bibitem_as_plaintext_Placeholder(bibitem, t, status, output) ==
    IF (t.onPath \/ t.bundled) /\ status = 0
    THEN [exc |-> None, output |-> str_clean_whitespaces(output),
          binary |-> IF t.onPath THEN "path" ELSE "bundled"]
    ELSE [exc |-> None, output |-> <<>>, binary |-> "none"]

\* bbl.bibitem_as_plaintext (bbl.py:39-51) for a machine t, the exit status and
\* the standard output of the delatex that runs: the exception that leaves
\* the function (None: none), what it returns and the binary that ran.
\* subprocess.check_output raises FileNotFoundError for a missing binary and
\* CalledProcessError for a non-zero exit status; only the first is caught,
\* and only around the binary of the search path.
bibitem_as_plaintext(bibitem, t, status, output) ==
    IF t.onPath
    THEN IF status = 0
         THEN [exc |-> None, output |-> str_clean_whitespaces(output), binary |-> "path"]
         ELSE [exc |-> "CalledProcessError", output |-> <<>>, binary |-> "path"]
    ELSE IF t.bundled
         THEN IF status = 0
              THEN [exc |-> None, output |-> str_clean_whitespaces(output), binary |-> "bundled"]
              ELSE [exc |-> "CalledProcessError", output |-> <<>>, binary |-> "bundled"]
         ELSE [exc |-> "FileNotFoundError", output |-> <<>>, binary |-> "none"]

\* ----------------------------------------------------------------- SpecBbl
\* Most pieces the content of a .bbl file is put together from.
MaxBblPieces == 4

BblPieces ==
    { <<"\\", "b", "i", "b", "i", "t", "e", "m", "{", "k", "}">>,
      <<"\\", "b", "i", "b", "i", "t", "e", "m", "[", "l", "]", "{", "k", "}">>,
      <<"\\", "b", "i", "b", "i", "t", "e", "m", "{", "}">>,
      <<" ", "A">>,
      <<"\\", "e", "n", "d", "{", "t", "h", "e", "b", "i", "b", "l", "i", "o", "g", "r", "a", "p", "h", "y", "}">>,
      <<"\n">>,
      <<"}">> }

\* What delatex writes to its standard output.
DelatexOutputs ==
    { <<" ", "A", " ", " ", "B", "\n">>,
      <<>> }
ExitStatuses == {0, 1}
\* The status logged for a binary that could not be started.
NotRun == -1

\* What the calls of SpecBbl leave alone.
bblRest ==
    <<file, pep479, plaintext_citations, idx, dois, crossref_queue, lookups, size,
      item, batch, chunks, sent, last, nres, returned, idVars, cermineVars, downloadVars, findVars, entryVars, twinVars>>

\* get_plaintext_citations(bbl) on the content of a .bbl file.
InitBbl ==
    /\ bbl \in {Concat(ps) : ps \in SeqUpTo(BblPieces, MaxBblPieces)}
    /\ tool \in [onPath : BOOLEAN, bundled : BOOLEAN, calls : {<<>>}]
    /\ bibitems = <<>> /\ cleaned_bbl = <<>>
    /\ file = NoFile /\ pep479 = FALSE /\ pc = "call"
    /\ plaintext_citations = Unbound /\ crossref_queue = <<>>
    /\ size = CROSSREF_MAX_BATCH_SIZE
    /\ Fresh /\ IdsIdle /\ CermineIdle /\ DownloadIdle /\ FindIdle /\ EntryIdle /\ TwinIdle

\* bbl.py:63-72: the content is split into its bibitems.
BblSplit ==
    /\ pc = "call"
    /\ bibitems' = bbl_bibitems(bbl)
    /\ pc' = IF bibitems' = <<>> THEN "returned" ELSE "delatex"
    /\ UNCHANGED <<exc, bbl, tool, cleaned_bbl, bblRest>>

\* bbl.py:74: bibitem_as_plaintext on the next bibitem.
BibitemAsPlaintext ==
    /\ pc = "delatex"
    /\ \E status \in ExitStatuses, output \in DelatexOutputs :
          LET bibitem == bibitems[Len(cleaned_bbl) + 1]
              o == bibitem_as_plaintext(bibitem, tool, status, output)
          IN  /\ tool' = [tool EXCEPT !.calls =
                             Append(@, [stdin |-> bibitem, binary |-> o.binary,
                                        status |-> IF o.binary = "none" THEN NotRun ELSE status,
                                        stdout |-> IF o.binary = "none" THEN <<>> ELSE output])]
              /\ IF o.exc # None
                 THEN pc' = "raised" /\ exc' = o.exc /\ cleaned_bbl' = cleaned_bbl
                 ELSE /\ cleaned_bbl' = Append(cleaned_bbl, o.output)
                      /\ exc' = exc
                      /\ pc' = IF Len(cleaned_bbl') = Len(bibitems) THEN "returned"
                               ELSE "delatex"
    /\ UNCHANGED <<bbl, bibitems, bblRest>>

NextBbl == BblSplit \/ BibitemAsPlaintext

SpecBbl == InitBbl /\ [][NextBbl]_vars

\* ------------------------------------------------ claims on citations.bbl
\* The citation-item markers of a content, from left to right: where each
\* match of BIBITEMS_REGEX starts and ends.
RECURSIVE MarkerSpans(_, _)
MarkerSpans(s, p) ==
    IF p > Len(s) THEN <<>>
    ELSE IF BIBITEMS_REGEX_at(s, p) = 0 THEN MarkerSpans(s, p + 1)
    ELSE <<[from |-> p, to |-> BIBITEMS_REGEX_at(s, p)]>>
         \o MarkerSpans(s, BIBITEMS_REGEX_at(s, p) + 1)

\* The text behind marker k, up to the next marker or the end of the content.
TextBehind(s, m, k) ==
    SubSeq(s, m[k].to + 1, IF k < Len(m) THEN m[k + 1].from - 1 ELSE Len(s))

C18_ToolFailureRaises ==
    /\ \A k \in DOMAIN tool.calls :
          tool.calls[k].status # 0 =>
              /\ k = Len(tool.calls)
              /\ pc = "raised"
              /\ exc = IF tool.calls[k].binary = "none" THEN "FileNotFoundError"
                       ELSE "CalledProcessError"
    /\ (bibitems # <<>> /\ ~tool.onPath /\ ~tool.bundled /\ tool.calls # <<>>) =>
          tool.calls[1].status = NotRun
    /\ pc = "returned" =>
          /\ Len(cleaned_bbl) = Len(bibitems)
          /\ \A k \in DOMAIN cleaned_bbl :
                /\ tool.calls[k].status = 0
                /\ tool.calls[k].stdin = bibitems[k]
                /\ cleaned_bbl[k] = str_clean_whitespaces(tool.calls[k].stdout)

\* The bundled delatex exited with a non-zero status on the second bibitem.
C18_Witness ==
    /\ pc = "raised" /\ exc = "CalledProcessError"
    /\ Len(cleaned_bbl) = 1
    /\ Len(tool.calls) = 2
    /\ tool.calls[2].binary = "bundled"


\* ------------------------------------------------------------ citations.pdf
\* A Python str, tagged like PyList and PyNone.
PyStr(s) == [tag |-> "str", val |-> s]

\* str.replace(old, ""): every occurrence of old is cut out, from the left.
RECURSIVE Replace(_, _)
Replace(s, old) ==
    IF old = <<>> \/ Len(s) < Len(old) THEN s
    ELSE IF Lit(s, 1, old) THEN Replace(SubSeq(s, Len(old) + 1, Len(s)), old)
    ELSE <<Head(s)>> \o Replace(Tail(s), old)

\* An element of the tree ET.fromstring builds: its tag, its text (the text
\* before its first child, None when there is none), the text of its children
\* and of what follows each of them, and its tail (the text behind its end tag).
Element(tag, text, inner, tail) == [tag |-> tag, text |-> text, inner |-> inner, tail |-> tail]

\* The outputs of CERMINE: a document is the sequence of its top-level
\* elements, each with its children.  XML has exactly one.
Label == <<"[", "1", "]">>
CermineDocuments ==
    { <<>>,
      << [tag |-> "article", children |-> <<>>] >>,
      << [tag |-> "article", children |->
             << Element("article-title", PyStr(<<"T">>), <<>>, <<"\n">>),
                Element("mixed-citation", PyStr(Label), <<" ", "A", " ", " ", "[", "1", "]", "B">>, <<"\n", " ">>),
                Element("mixed-citation", PyStr(Label \o <<" ", "C">>), <<>>, <<>>) >>] >>,
      << [tag |-> "article", children |->
             << Element("mixed-citation", PyNone, <<"A">>, <<>>) >>] >>,
      << [tag |-> "article", children |-> <<>>],
         [tag |-> "article", children |-> <<>>] >> }

\* What the call of requests.post at pdf.py:70 does.
PostOutcomes == {"RequestException", "response"}

\* pdf.cermine (pdf.py:55-87) on a machine env, for what the service and the
\* tool do (world: how the request ends, the exit status of java, the text
\* produced): the value returned.  open() raises FileNotFoundError for a
\* missing PDF file and subprocess.check_output does for a missing java; they,
\* RequestException and CalledProcessError are caught at pdf.py:83-87.
cermine(env, world) ==
    LET local == IF ~env.override_local /\ ~env.force_api
                 THEN env.jar
                 ELSE env.override_local
    IN  IF env.force_api \/ ~local
        THEN IF ~env.pdf THEN PyNone
             ELSE IF world.post = "RequestException" THEN PyNone
             ELSE PyStr(world.text)
        ELSE IF ~env.java THEN PyNone
             ELSE IF world.status # 0 THEN PyNone
             ELSE PyStr(world.text)

\* root.iter("mixed-citation") on the tree of a document.
mixed_citations(root) == SelectSeq(root.children, LAMBDA e : e.tag = "mixed-citation")

\* pdf.py:132-138 on what cermine returned: the exception that leaves
\* cermine_dois (None: none) and the list plaintext_references.
\* ET.fromstring raises TypeError for None and ParseError for a text that is
\* no document; str.replace raises TypeError for an element without text.
cermine_references(output) ==
    IF ~IsNotNone(output) THEN [exc |-> "TypeError", refs |-> <<>>]
    ELSE IF Len(output.val) # 1 THEN [exc |-> "ParseError", refs |-> <<>>]
    ELSE LET es == mixed_citations(output.val[1])
         IN  IF \E i \in DOMAIN es : ~IsNotNone(es[i].text)
             THEN [exc |-> "TypeError", refs |-> <<>>]
             ELSE [exc |-> None,
                   refs |-> [i \in DOMAIN es |->
                                str_clean_whitespaces(
                                    Replace(es[i].text.val \o es[i].inner \o es[i].tail,
                                            es[i].text.val))]]

\* ------------------------------------------------------------- SpecCermine
\* What the calls of SpecCermine leave alone.
cermineRest ==
    <<file, pep479, plaintext_citations, idx, dois, crossref_queue, lookups, size,
      item, batch, chunks, sent, last, nres, returned, idVars, bblVars, downloadVars, findVars, entryVars, twinVars>>

\* cermine_dois(pdf_file, force_api, override_local) on every machine.
InitCermine ==
    /\ cermine_env \in [force_api : BOOLEAN, override_local : BOOLEAN, jar : BOOLEAN,
                        pdf : BOOLEAN, java : BOOLEAN]
    /\ cermine_output = Unbound /\ plaintext_references = <<>>
    /\ file = NoFile /\ pep479 = FALSE /\ pc = "call"
    /\ plaintext_citations = Unbound /\ crossref_queue = <<>>
    /\ size = CROSSREF_MAX_BATCH_SIZE
    /\ Fresh /\ IdsIdle /\ BblIdle /\ DownloadIdle /\ FindIdle /\ EntryIdle /\ TwinIdle

\* pdf.py:130: the call of cermine.
Cermine ==
    /\ pc = "call"
    /\ \E post \in PostOutcomes, status \in ExitStatuses, text \in CermineDocuments :
          cermine_output' = cermine(cermine_env, [post |-> post, status |-> status, text |-> text])
    /\ pc' = "cermine"
    /\ UNCHANGED <<exc, cermine_env, plaintext_references, cermineRest>>

\* pdf.py:132-138: the output is parsed and the references are cleaned.
CermineParse ==
    /\ pc = "cermine"
    /\ LET r == cermine_references(cermine_output)
       IN  IF r.exc # None
           THEN pc' = "raised" /\ exc' = r.exc /\ plaintext_references' = plaintext_references
           ELSE pc' = "parsed" /\ exc' = exc /\ plaintext_references' = r.refs
    /\ UNCHANGED <<cermine_env, cermine_output, cermineRest>>

\* pdf.py:140: plaintext.get_cited_dois is no attribute of the module (its
\* function is get_cited_DOIs).
CermineResolve ==
    /\ pc = "parsed"
    /\ pc' = "raised" /\ exc' = "AttributeError"
    /\ UNCHANGED <<cermine_env, cermine_output, plaintext_references, cermineRest>>

NextCermine == Cermine \/ CermineParse \/ CermineResolve

SpecCermine == InitCermine /\ [][NextCermine]_vars

\* -------------------------------------------------- claims on citations.pdf
\* C19 (SpecCermine): when the service or the tool is unavailable (cermine
\* returned None: network error, non-zero exit status, missing java or PDF
\* file), cermine_dois does not raise, and what it returns is empty.
C19_UnavailableYieldsEmpty ==
    (cermine_output = PyNone) =>
        /\ pc # "raised"
        /\ plaintext_references = <<>>
        /\ dois = EmptyDict

\* ------------------------------------------------------------------ fetcher
\* s.find(sub), counted from 0, and "sub in s".
Find(s, sub) ==
    LET at == {p \in 1..Len(s) : Lit(s, p, sub)}
    IN  IF at = {} THEN 0 - 1 ELSE (CHOOSE p \in at : \A q \in at : p <= q) - 1
Contains(s, sub) == \E p \in 1..Len(s) : Lit(s, p, sub)

\* s.split(":").
RECURSIVE SplitColon(_)
SplitColon(s) ==
    IF ~Contains(s, <<":">>) THEN <<s>>
    ELSE <<SubSeq(s, 1, Find(s, <<":">>))>> \o SplitColon(SubSeq(s, Find(s, <<":">>) + 2, Len(s)))

\* proxy, port = proxy.split(':'), with port = None on ValueError
\* (fetcher.py:112-115 and 120-123).
HostPort(proxy) ==
    IF Len(SplitColon(proxy)) = 2
    THEN [addr |-> SplitColon(proxy)[1], port |-> PyStr(SplitColon(proxy)[2])]
    ELSE [addr |-> proxy, port |-> PyNone]

\* Mutant: the generic HTTP proxy leaves socket.socket as it is.
SetProxy_HttpKeepsSocket(proxy, sock) ==
    IF proxy = <<>> THEN [exc |-> None, socket |-> "DEFAULT_SOCKET", set |-> PyNone]
    ELSE IF Lit(proxy, 1, <<"s", "o", "c", "k", "s">>)
    THEN IF Len(proxy) < 6 THEN [exc |-> "IndexError", socket |-> sock, set |-> PyNone]
         ELSE LET hp == HostPort(SubSeq(proxy, Find(proxy, <<":", "/", "/">>) + 4, Len(proxy)))
              IN  [exc |-> None, socket |-> "socksocket",
                   set |-> PyList(<<IF proxy[6] = "4" THEN "SOCKS4" ELSE "SOCKS5", hp.addr, hp.port>>)]
    ELSE [exc |-> None, socket |-> sock,
          set |-> PyList(<<"HTTP", HostPort(proxy).addr, HostPort(proxy).port>>)]

\* fetcher.py:103-125 for one proxy, socket.socket being sock: the exception
\* raised (proxy[5] of a string of five characters), the class socket.socket
\* is set to and the arguments of socks.set_default_proxy (None: not called).
SetProxy(proxy, sock) ==
    IF proxy = <<>> THEN [exc |-> None, socket |-> "DEFAULT_SOCKET", set |-> PyNone]
    ELSE IF Lit(proxy, 1, <<"s", "o", "c", "k", "s">>)
    THEN IF Len(proxy) < 6 THEN [exc |-> "IndexError", socket |-> sock, set |-> PyNone]
         ELSE LET hp == HostPort(SubSeq(proxy, Find(proxy, <<":", "/", "/">>) + 4, Len(proxy)))
              IN  [exc |-> None, socket |-> "socksocket",
                   set |-> PyList(<<IF proxy[6] = "4" THEN "SOCKS4" ELSE "SOCKS5", hp.addr, hp.port>>)]
    ELSE [exc |-> None, socket |-> "socksocket",
          set |-> PyList(<<"HTTP", HostPort(proxy).addr, HostPort(proxy).port>>)]

\* What urllib.request.urlopen raises for the URL itself: ValueError for a URL
\* without http scheme ("unknown url type"), http.client.InvalidURL for a
\* port that is no number; None for a URL it sends a request for.
UrlError(u) ==
    IF ~Lit(u, 1, <<"h", "t", "t", "p", ":", "/", "/">>) THEN "ValueError"
    ELSE LET rest == SubSeq(u, 8, Len(u))
             host == IF Contains(rest, <<"/">>) THEN SubSeq(rest, 1, Find(rest, <<"/">>)) ELSE rest
             port == SubSeq(host, Find(host, <<":">>) + 2, Len(host))
         IN  IF Contains(host, <<":">>) /\ \E i \in DOMAIN port : ~IsDigit(port[i])
             THEN "InvalidURL"
             ELSE None

\* int(text.strip()) raises ValueError (fetcher.py:30, 33).
IntRaises(t) == Strip(t) = <<>> \/ \E i \in DOMAIN Strip(t) : ~IsDigit(Strip(t)[i])

\* The exceptions fetcher.py:76 catches.
DownloadCaught == {"URLError", "socket.error", "ValueError"}

\* A tuple (doc, contenttype).
PyTuple(doc, contenttype) == PyList(<<doc, contenttype>>)

\* fetcher._download_helper(url) (fetcher.py:27-77) for what the network does
\* (world: how urlopen ends, the status code, the headers as the server wrote
\* them, the buffers request.read returns, how reading ends): the exception
\* that leaves it (None: none) and the value returned.  dict(request.info())
\* has the header names as they were sent.
download_helper(u, world) ==
    IF UrlError(u) # None
    THEN [exc |-> IF UrlError(u) \in DownloadCaught THEN None ELSE UrlError(u), ret |-> PyNone]
    ELSE IF world.urlopen # "response"
    THEN [exc |-> IF world.urlopen \in DownloadCaught THEN None ELSE world.urlopen, ret |-> PyNone]
    ELSE LET h == world.headers
             length == IF "content-length" \in DOMAIN h THEN PyStr(h["content-length"])
                       ELSE IF "Content-Length" \in DOMAIN h THEN PyStr(h["Content-Length"])
                       ELSE PyNone
         IN  IF IsNotNone(length) /\ IntRaises(length.val) THEN [exc |-> None, ret |-> PyNone]
             ELSE IF world.read # "ok"
             THEN [exc |-> IF world.read \in DownloadCaught THEN None ELSE world.read, ret |-> PyNone]
             ELSE IF "content-type" \notin DOMAIN h /\ "Content-Type" \notin DOMAIN h
             THEN [exc |-> None, ret |-> PyNone]
             ELSE LET contenttype_req == IF "content-type" \in DOMAIN h THEN h["content-type"]
                                         ELSE h["Content-Type"]
                      contenttype == IF Contains(contenttype_req, <<"p", "d", "f">>) THEN PyStr(<<"p", "d", "f">>)
                                     ELSE IF Contains(contenttype_req, <<"d", "j", "v", "u">>) THEN PyStr(<<"d", "j", "v", "u">>)
                                     ELSE PyNone
                  IN  IF world.code # 200 \/ ~IsNotNone(contenttype)
                      THEN [exc |-> None, ret |-> PyNone]
                      ELSE [exc |-> None, ret |-> PyTuple(PyStr(Concat(world.body)), contenttype)]

\* ------------------------------------------------------------- SpecDownload
\* Longest list of proxies.
MaxProxies == 2

\* "" (no proxy), SOCKS proxies, a generic HTTP proxy, and the HTTP proxy on
\* the host named socks.
ProxyStrings ==
    { <<>>, <<"s", "o", "c", "k", "s", "4", ":", "/", "/", "h", ":", "1">>, <<"s", "o", "c", "k", "s", "5", ":", "/", "/", "h">>, <<"h", ":", "8">>, <<"s", "o", "c", "k", "s">> }

\* The URLs of tests/test_fetcher.py and one with a port that is no number.
Urls == { <<"a">>, <<"h", "t", "t", "p", ":", "/", "/", "a", ":", "b", "/">>, <<"h", "t", "t", "p", ":", "/", "/", "p", "h", "y", "k", "s", ".", "m", "e", "/">> }

Pdf == <<"a", "p", "p", "l", "i", "c", "a", "t", "i", "o", "n", "/", "p", "d", "f">>
\* What the network does on one call of urlopen for a URL it accepts.
Worlds ==
    { [urlopen |-> "URLError", code |-> 0, headers |-> ("Server" :> <<"x">>), body |-> <<>>, read |-> "ok"],
      [urlopen |-> "socket.error", code |-> 0, headers |-> ("Server" :> <<"x">>), body |-> <<>>, read |-> "ok"],
      [urlopen |-> "BadStatusLine", code |-> 0, headers |-> ("Server" :> <<"x">>), body |-> <<>>, read |-> "ok"],
      [urlopen |-> "response", code |-> 200,
       headers |-> ("Content-Type" :> Pdf @@ "Content-Length" :> <<" ", "2">>),
       body |-> << <<"%">>, <<"P">> >>, read |-> "ok"],
      [urlopen |-> "response", code |-> 200,
       headers |-> ("content-type" :> <<"i", "m", "a", "g", "e", "/", "v", "n", "d", ".", "d", "j", "v", "u">>), body |-> << <<"A">> >>, read |-> "ok"],
      [urlopen |-> "response", code |-> 200,
       headers |-> ("Content-Type" :> <<"t", "e", "x", "t", "/", "h", "t", "m", "l">>), body |-> << <<"<">> >>, read |-> "ok"],
      [urlopen |-> "response", code |-> 200,
       headers |-> ("Server" :> <<"x">>), body |-> << <<"%">> >>, read |-> "ok"],
      [urlopen |-> "response", code |-> 200,
       headers |-> ("Content-type" :> Pdf), body |-> << <<"%">> >>, read |-> "ok"],
      [urlopen |-> "response", code |-> 200,
       headers |-> ("Content-Type" :> Pdf @@ "Content-Length" :> <<"x">>),
       body |-> << <<"%">> >>, read |-> "ok"],
      [urlopen |-> "response", code |-> 206,
       headers |-> ("Content-Type" :> Pdf), body |-> << <<"%">> >>, read |-> "ok"],
      [urlopen |-> "response", code |-> 200,
       headers |-> ("Content-Type" :> Pdf), body |-> << <<"%">> >>, read |-> "socket.error"],
      [urlopen |-> "response", code |-> 200,
       headers |-> ("Content-Type" :> Pdf), body |-> << <<"%">> >>, read |-> "IncompleteRead"] }

\* The world of a call of urlopen that sends nothing.
NoWorld == [urlopen |-> "none", code |-> 0, headers |-> ("Server" :> <<"x">>), body |-> <<>>, read |-> "ok"]

\* What the calls of SpecDownload leave alone.
downloadRest ==
    <<file, pep479, plaintext_citations, idx, dois, crossref_queue, lookups, size,
      item, batch, chunks, sent, last, nres, returned, idVars, bblVars, cermineVars, findVars, entryVars, twinVars>>

\* fetcher.py:97-98: the list the loop runs over.
ProxyList(p) == IF IsNotNone(p) THEN p.val ELSE << <<>> >>

\* download(url, proxies), in a process where socket.socket is the default
\* class or was left as the proxy class by a call before.
InitDownload ==
    /\ url \in Urls
    /\ proxies \in {PyNone} \cup {PyList(l) : l \in SeqUpTo(ProxyStrings, MaxProxies)}
    /\ socket_at_call \in {"DEFAULT_SOCKET", "socksocket"}
    /\ socket_socket = socket_at_call
    /\ default_proxy = IF socket_at_call = "socksocket" THEN SetProxy(<<"h", ":", "8">>, socket_at_call).set
                       ELSE PyNone
    /\ attempts = <<>> /\ downloaded = Unbound
    /\ file = NoFile /\ pep479 = FALSE /\ pc = "call"
    /\ plaintext_citations = Unbound /\ crossref_queue = <<>>
    /\ size = CROSSREF_MAX_BATCH_SIZE
    /\ Fresh /\ IdsIdle /\ BblIdle /\ CermineIdle /\ FindIdle /\ EntryIdle /\ TwinIdle

\* fetcher.py:101-129: one turn of the loop, for the next proxy of the list.
DownloadAttempt ==
    /\ pc = "call"
    /\ Len(attempts) < Len(ProxyList(proxies))
    /\ LET proxy == ProxyList(proxies)[Len(attempts) + 1]
           s == SetProxy(proxy, socket_socket)
       IN  IF s.exc # None
           THEN /\ pc' = "raised" /\ exc' = s.exc
                /\ UNCHANGED <<socket_socket, default_proxy, attempts, downloaded>>
           ELSE /\ socket_socket' = s.socket
                /\ default_proxy' = IF IsNotNone(s.set) THEN s.set ELSE default_proxy
                /\ \E world \in IF UrlError(url) # None THEN {NoWorld} ELSE Worlds :
                      LET d == download_helper(url, world)
                      IN  /\ attempts' = Append(attempts, [proxy |-> proxy, socket |-> s.socket,
                                                           world |-> world])
                          /\ IF d.exc # None
                             THEN pc' = "raised" /\ exc' = d.exc /\ downloaded' = downloaded
                             ELSE IF IsNotNone(d.ret)
                             THEN pc' = "returned" /\ exc' = exc /\ downloaded' = d.ret
                             ELSE pc' = "call" /\ exc' = exc /\ downloaded' = downloaded
    /\ UNCHANGED <<url, proxies, socket_at_call, downloadRest>>

\* fetcher.py:131-132: the list is exhausted.
DownloadExhausted ==
    /\ pc = "call"
    /\ Len(attempts) = Len(ProxyList(proxies))
    /\ pc' = "returned"
    /\ downloaded' = PyTuple(PyNone, PyNone)
    /\ UNCHANGED <<exc, url, proxies, socket_at_call, socket_socket, default_proxy, attempts,
                   downloadRest>>

NextDownload == DownloadAttempt \/ DownloadExhausted

SpecDownload == InitDownload /\ [][NextDownload]_vars

\* ------------------------------------------------------- claims on fetcher
\* The names a server writes the content-type header under.
ContentTypeNames == {"content-type", "Content-Type", "Content-type"}

\* The attempt got status 200 and a pdf or djvu content type, and its body
\* was read to the end.
GoodAnswer(w) ==
    /\ w.urlopen = "response" /\ w.read = "ok" /\ w.code = 200
    /\ \E n \in DOMAIN w.headers \cap ContentTypeNames :
          Contains(w.headers[n], <<"p", "d", "f">>) \/ Contains(w.headers[n], <<"d", "j", "v", "u">>)

\* C21 (SpecDownload): download never raises; the proxies are tried in list
\* order; an attempt that gets status 200 with a pdf or djvu content type is
\* the last one and download returns its content with the content-type 'pdf'
\* or 'djvu'; when no attempt gets one, every proxy was tried and download
\* returns (None, None).
C21_FirstGoodAttemptReturned ==
    LET good == {k \in DOMAIN attempts : GoodAnswer(attempts[k].world)}
    IN  /\ pc # "raised"
        /\ \A k \in DOMAIN attempts : attempts[k].proxy = ProxyList(proxies)[k]
        /\ \A k \in good : k = Len(attempts) /\ pc = "returned"
        /\ pc = "returned" =>
              IF good = {}
              THEN /\ downloaded = PyTuple(PyNone, PyNone)
                   /\ Len(attempts) = Len(ProxyList(proxies))
              ELSE /\ downloaded.val[1] = PyStr(Concat(attempts[Len(attempts)].world.body))
                   /\ downloaded.val[2] \in {PyStr(<<"p", "d", "f">>), PyStr(<<"d", "j", "v", "u">>)}

\* The class the claim names for a proxy.
SocketFor(proxy) == IF proxy = <<>> THEN "DEFAULT_SOCKET" ELSE "socksocket"

\* C30 (SpecDownload): every attempt runs under the default socket class for
\* the proxy "" and under the proxy socket class for any other proxy;
\* socket.socket stays what the last attempt set (what it was at the call
\* when no attempt was made) and is never set back; download returns after
\* the successful attempt or after the last proxy of the list, and
\* socket.socket is then the default class only if the last proxy tried
\* was "".
C30_SocketFollowsLastProxy ==
    /\ \A k \in DOMAIN attempts : attempts[k].socket = SocketFor(attempts[k].proxy)
    /\ attempts = <<>> => socket_socket = socket_at_call
    /\ attempts # <<>> => socket_socket = attempts[Len(attempts)].socket
    /\ pc = "returned" =>
          \/ Len(attempts) = Len(ProxyList(proxies))
          \/ downloaded # PyTuple(PyNone, PyNone)
    /\ (pc = "returned" /\ attempts # <<>> /\ socket_socket = "DEFAULT_SOCKET") =>
          attempts[Len(attempts)].proxy = <<>>

\* download returned (None, None) after "" and then an HTTP proxy, in a
\* process whose socket.socket was the default class: it is the proxy class.
C30_Witness ==
    /\ pc = "returned" /\ downloaded = PyTuple(PyNone, PyNone)
    /\ socket_at_call = "DEFAULT_SOCKET"
    /\ Len(attempts) = 2
    /\ attempts[1].proxy = <<>>
    /\ attempts[2].proxy = <<"h", ":", "8">>
    /\ socket_socket = "socksocket"

\* ------------------------------------------------------ papers.identifiers
\* The module extract_from_text is taken from for a name of the registry
\* (sys.modules["libbmc.%s" % type], identifiers.py:61).
SchemeOf(type) == IF type = "repositories.arxiv" THEN "arxiv" ELSE type

\* The value (None, None).
NotFound == [type |-> None, id |-> NoneStr]

\* identifiers.py:58-67 on a text: the types are tried in the order of the
\* list, and the first whose extract_from_text returns a list with an element
\* gives (type, found_id[0]).  The set of the values the search can end with;
\* {NotFound} when the loop ends without a return.
RECURSIVE SearchTypes(_, _)
SearchTypes(types, t) ==
    IF types = <<>> THEN {NotFound}
    ELSE LET lists == extract_from_text(SchemeOf(Head(types)), t)
         IN  IF \E l \in lists : l # <<>>
             THEN {[type |-> Head(types), id |-> l[1]] : l \in {m \in lists : m # <<>>}}
             ELSE SearchTypes(Tail(types), t)

\* identifiers.py:55-56: the lines read, stripped and joined by a blank.
ExtractFull(lines) == Join([i \in DOMAIN lines |-> Strip(lines[i])], <<" ">>)

\* ----------------------------------------------------------------- SpecFind
\* What pdftotext or djvutxt writes for the file, by lines.
ConvertedTexts ==
    { <<>>,
      << <<"f", "o", "o", "b", "a", "r">> \o <<"\n">> >>,
      << <<"d", "o", "i", ":", "1", "0", ".", "1", "2", "0", "9", "/", "a", "-", "5">> \o <<"\n">> >>,
      << <<" ", "h", "a", "l", "-", "0", "1", "2", "5", "8", "7", "5", "4">> \o <<"\n">> >>,
      << <<"9", "7", "8", "3", "1", "6", "1", "4", "8", "4", "1", "0", "0">> \o <<"\n">> >>,
      << <<"a", "r", "X", "i", "v", ":", "1", "5", "0", "6", ".", "0", "6", "6", "9", "0">> \o <<"\n">>, <<"f", "o", "o", "b", "a", "r">> \o <<"\n">> >>,
      << <<"1", "5", "0", "6", ".", "0", "6", "6", "9", "0">> \o <<"\n">>, <<"1", "5", "0", "6", ".", "0", "6", "6", "9", "1", "v", "2">> \o <<"\n">> >>,
      << <<"h", "e", "p", "-", "t", "h", "/", "0", "3", "0", "9", "1", "3", "6", " ", "s", "e", "e">> \o <<"\n">>, <<" ", "9", "7", "8", "-", "3", "-", "1", "6", "-", "1", "4", "8", "4", "1", "0", "-", "0">> \o <<"\n">> >> }

\* The registry after the import of libbmc: isbn.py:11 appends "isbn" when
\* libbmc/__init__.py:7 loads it, and repositories/arxiv.py:23 appends
\* "repositories.arxiv" when something loads that module afterwards.  doi.py
\* and repositories/hal.py append nothing.
Registries == { <<"isbn">>, <<"isbn", "repositories.arxiv">> }

\* What the calls of SpecFind leave alone.
findRest ==
    <<file, pep479, plaintext_citations, idx, dois, crossref_queue, lookups, size,
      item, batch, chunks, sent, last, nres, returned, idVars, bblVars, cermineVars,
      downloadVars, entryVars, twinVars>>

\* find_identifiers(src) for a file whose conversion writes one of the texts.
InitFind ==
    /\ src \in {".pdf", ".djvu", ".txt"}
    /\ totext \in [state : {"none"}, text : ConvertedTexts, pipe : {<<>>}]
    /\ extract_full = Unbound
    /\ found_id = NotReturned
    /\ valid_identifiers \in Registries
    /\ file = NoFile /\ pep479 = FALSE /\ pc = "call"
    /\ plaintext_citations = Unbound /\ crossref_queue = <<>>
    /\ size = CROSSREF_MAX_BATCH_SIZE
    /\ Fresh /\ IdsIdle /\ BblIdle /\ CermineIdle /\ DownloadIdle /\ EntryIdle /\ TwinIdle

\* identifiers.py:41-52: the subprocess is started, or (None, None) is
\* returned for a file that is neither .pdf nor .djvu.
FindPopen ==
    /\ pc = "call"
    /\ IF src \in {".pdf", ".djvu"}
       THEN /\ totext' = [totext EXCEPT !.state = "running"]
            /\ pc' = "poll" /\ found_id' = found_id
       ELSE /\ pc' = "returned" /\ found_id' = NotFound /\ totext' = totext
    /\ UNCHANGED <<exc, src, extract_full, valid_identifiers, findRest>>

\* The subprocess: it writes its text to its stdout and closes it...
TotextWrite ==
    /\ totext.state = "running"
    /\ totext' = [totext EXCEPT !.state = "closed", !.pipe = totext.text]
    /\ UNCHANGED <<pc, exc, src, extract_full, found_id, valid_identifiers, findRest>>

\* ... and exits.
TotextExit ==
    /\ totext.state = "closed"
    /\ totext' = [totext EXCEPT !.state = "exited"]
    /\ UNCHANGED <<pc, exc, src, extract_full, found_id, valid_identifiers, findRest>>

\* identifiers.py:54 and 68: totext.poll() is None while the subprocess has
\* not exited; once it is not, (None, None) is returned.
FindPoll ==
    /\ pc = "poll"
    /\ IF totext.state = "exited"
       THEN pc' = "returned" /\ found_id' = NotFound
       ELSE pc' = "readlines" /\ found_id' = found_id
    /\ UNCHANGED <<exc, src, totext, extract_full, valid_identifiers, findRest>>

\* identifiers.py:55-67: readlines() returns at the end of the stream, that
\* is once the subprocess has closed its stdout; the text read is searched.
FindRead ==
    /\ pc = "readlines"
    /\ totext.state \in {"closed", "exited"}
    /\ extract_full' = PyStr(ExtractFull(totext.pipe))
    /\ \E f \in SearchTypes(valid_identifiers, extract_full'.val) :
          IF f # NotFound
          THEN /\ found_id' = f /\ pc' = "returned"
               /\ totext' = [totext EXCEPT !.pipe = <<>>,
                                           !.state = IF @ = "exited" THEN @ ELSE "terminated"]
          ELSE /\ found_id' = found_id /\ pc' = "poll"
               /\ totext' = [totext EXCEPT !.pipe = <<>>]
    /\ UNCHANGED <<exc, src, valid_identifiers, findRest>>

NextFind == FindPopen \/ TotextWrite \/ TotextExit \/ FindPoll \/ FindRead

SpecFind == InitFind /\ [][NextFind]_vars

\* ------------------------------------------- claims on papers.identifiers
\* C22 (SpecFind): for a .pdf or .djvu file, find_identifiers returns
\* (None, None) only if the text the conversion writes holds no identifier
\* of a registered type, however the exit of the subprocess and the polls of
\* the caller are interleaved.
C22_FoundWhateverTheTiming ==
    (pc = "returned" /\ src \in {".pdf", ".djvu"} /\ found_id = NotFound) =>
        SearchTypes(valid_identifiers, ExtractFull(totext.text)) = {NotFound}

\* The four identifier types the claim names.
NamedSchemes == {"doi", "isbn", "arxiv", "hal"}

\* C23 (SpecFind): once the converted text was searched, what is returned is
\* the first type of the registry, in its order, that has a match, with its
\* identifier; and (None, None) is returned only for a text that holds no
\* DOI, no ISBN, no arXiv id and no HAL id.
C23_FirstTypeOfTheFour ==
    (pc = "returned" /\ extract_full # Unbound) =>
        /\ found_id \in SearchTypes(valid_identifiers, ExtractFull(totext.text))
        /\ found_id = NotFound =>
              \A sch \in NamedSchemes :
                  \A l \in extract_from_text(sch, ExtractFull(totext.text)) : l = <<>>

\* ------------------------------------------------------------------- bibtex
\* A BibDatabase, by its entries.
BibDatabase(entries) == [tag |-> "BibDatabase", val |-> entries]

\* What filter_function(entry) does: "True", "False", or "KeyError" when it
\* reads a field the entry has not.  "id" is the filter of get_entry
\* (bibtex.py:220, lambda x: x["ID"] == identifier, for the identifier a).
Filter(f, entry) ==
    CASE f = "id" -> IF entry["ID"] = "a" THEN "True" ELSE "False"
      [] f = "year" -> IF "year" \notin DOMAIN entry THEN "KeyError"
                       ELSE IF entry["year"] = "2016" THEN "True" ELSE "False"
      [] OTHER -> "True"

\* bibtex.py:195-196: the entry without the ignored fields.
CleanEntry(entry, ignore) ==
    [k \in DOMAIN entry \ Range(IF IsNotNone(ignore) THEN ignore.val ELSE <<>>) |-> entry[k]]

\* bibtex.py:184-189, one turn of the loop: the exception (None: none) and
\* matching_entry afterwards.
FilterStep(f, entry, matching) ==
    IF Filter(f, entry) = "KeyError" THEN [exc |-> "KeyError", matching |-> matching]
    ELSE IF Filter(f, entry) = "True" THEN [exc |-> None, matching |-> PyList(<<entry>>)]
    ELSE [exc |-> None, matching |-> matching]

\* ---------------------------------------------------------------- SpecEntry
\* Most entries of a BibTeX file.
MaxEntries == 3

\* The entries a file is made of.
Entries ==
    { ("ENTRYTYPE" :> "article" @@ "ID" :> "a" @@ "title" :> "T1" @@ "year" :> "2016"),
      ("ENTRYTYPE" :> "article" @@ "ID" :> "a" @@ "title" :> "T2"),
      ("ENTRYTYPE" :> "book" @@ "ID" :> "b" @@ "title" :> "T3" @@ "year" :> "2016"),
      ("ENTRYTYPE" :> "book" @@ "ID" :> "c" @@ "title" :> "T4" @@ "year" :> "1999") }

\* What the calls of SpecEntry leave alone.
entryRest ==
    <<file, pep479, plaintext_citations, dois, crossref_queue, lookups, size,
      item, batch, chunks, sent, last, nres, returned, idVars, bblVars, cermineVars,
      downloadVars, findVars, twinVars>>

\* get_entry_by_filter(filename, filter_function, ignore_fields) once the
\* file is loaded (bibtex.py:174-181).
InitEntry ==
    /\ bibtex \in SeqUpTo(Entries, MaxEntries)
    /\ filter_function \in {"id", "year", "all"}
    /\ ignore_fields \in {PyNone, PyList(<<"title">>)}
    /\ matching_entry = PyNone /\ bib_db = Unbound
    /\ file = NoFile /\ pep479 = FALSE /\ pc = "call"
    /\ plaintext_citations = Unbound /\ crossref_queue = <<>>
    /\ size = CROSSREF_MAX_BATCH_SIZE
    /\ Fresh /\ IdsIdle /\ BblIdle /\ CermineIdle /\ DownloadIdle /\ FindIdle /\ TwinIdle

\* bibtex.py:184-189: the filter is called on the next entry; a KeyError
\* ends the function with None.
EntryFilter ==
    /\ pc = "call"
    /\ idx < Len(bibtex)
    /\ idx' = idx + 1
    /\ LET r == FilterStep(filter_function, bibtex[idx + 1], matching_entry)
       IN  /\ matching_entry' = r.matching
           /\ IF r.exc = "KeyError"
              THEN pc' = "returned" /\ bib_db' = PyNone
              ELSE pc' = pc /\ bib_db' = bib_db
    /\ UNCHANGED <<exc, bibtex, filter_function, ignore_fields, entryRest>>

\* bibtex.py:191-200: None, or a database of the cleaned matching entry.
EntryReturn ==
    /\ pc = "call"
    /\ idx = Len(bibtex)
    /\ pc' = "returned"
    /\ bib_db' = IF ~IsNotNone(matching_entry) THEN PyNone
                 ELSE BibDatabase(<<CleanEntry(matching_entry.val[1], ignore_fields)>>)
    /\ UNCHANGED <<exc, idx, bibtex, filter_function, ignore_fields, matching_entry, entryRest>>

NextEntry == EntryFilter \/ EntryReturn

SpecEntry == InitEntry /\ [][NextEntry]_vars

\* ---------------------------------------------------------- claims on bibtex
\* The entries the filter returns True for, by their place in the file.
Matching == {k \in DOMAIN bibtex : Filter(filter_function, bibtex[k]) = "True"}

\* C24 (SpecEntry): get_entry_by_filter returns a database of the first
\* entry, in file order, the filter returns True for, without the ignored
\* fields, and None when the filter returns True for no entry.
C24_FirstMatchingEntry ==
    pc = "returned" =>
        IF Matching = {} THEN bib_db = PyNone
        ELSE LET first == CHOOSE k \in Matching : \A j \in Matching : k <= j
             IN  bib_db = BibDatabase(<<CleanEntry(bibtex[first], ignore_fields)>>)

\* ----------------------------------------- claims on the life of a citation
\* C25 (SpecLoop): a map entry that is written is never written again with
\* another value and never removed; no exception ends the invocation; and
\* when the map is returned every queued citation has reached its terminal
\* state: it is a key of the map.
C25_ResolvedOnceNeverOverwritten ==
    [][/\ \A k \in DOMAIN dois : k \in DOMAIN dois' /\ dois'[k] = dois[k]
       /\ pc' # "raised"
       /\ pc' = "returned" => \A t \in Range(crossref_queue) : t \in DOMAIN dois']_vars

\* The queue the claim describes for a list of citations: the citations that
\* hold neither a DOI nor an arXiv id, without their URLs, in input order.
Unmatched(c) ==
    /\ DoisIn(c) = {}
    /\ \A l \in arxiv_extract_from_text(c) : l.val = <<>>
ResidualQueue(cs) ==
    LET left == SelectSeq(cs, LAMBDA c : Unmatched(c))
    IN  [i \in DOMAIN left |-> remove_urls(left[i])]

\* C26 (Spec): once the direct pass is over the residual queue holds the
\* citations matched by neither extraction, URLs stripped, in input order,
\* and what was submitted to the service so far is the start of that queue.
C26_QueueIsTheUnmatchedInOrder ==
    (plaintext_citations.tag = "list" /\ pc \in {"loop", "returned", "raised"}) =>
        /\ crossref_queue = ResidualQueue(plaintext_citations.val)
        /\ Len(Flatten(sent)) <= Len(crossref_queue)
        /\ Flatten(sent) = SubSeq(crossref_queue, 1, Len(Flatten(sent)))

C28_DirectPassPartitions ==
    (plaintext_citations.tag = "list" /\ pc \in {"loop", "returned", "raised"}) =>
        LET cs == plaintext_citations.val
            direct == {i \in DOMAIN cs : cs[i] \in DOMAIN dois}
        IN  /\ \A i \in DOMAIN cs :
                  (i \in direct) # (remove_urls(cs[i]) \in Range(crossref_queue))
            /\ Len(crossref_queue) + Cardinality(direct) = Len(cs)


\* ------------------------------------------------------------------ SpecTwin
\* citations.bbl.get_cited_DOIs from the point where its citations are bound
\* (bbl.py:89), next to plaintext.get_cited_DOIs from the same point
\* (plaintext.py:60).  The two run step by step on the same list of citations:
\* each extraction and each answer of the matching service is drawn once and
\* handed to both.  tools.batch, doi.extract_from_text and requests.post are
\* the same functions for both, the interpreter is the same.

\* bbl.py:91-107: one iteration of the direct pass of the copy.
bbl_DirectIteration(citation, matched_DOIs, d, q, lk) ==
    IF IsNotNone(matched_DOIs)
    THEN IF Len(matched_DOIs.val) = 0
         THEN [dois |-> d, queue |-> q, lookups |-> lk, exc |-> "IndexError"]
         ELSE [dois |-> Put(d, citation, matched_DOIs.val[1]), queue |-> q,
               lookups |-> lk, exc |-> None]
    ELSE [dois |-> d, queue |-> q, lookups |-> lk, exc |-> "AttributeError"]

\* bbl.py:123-124: for i in batch: dois[i] = None.
bbl_SetNone(d, items) ==
    [x \in (DOMAIN d) \cup Range(items) |-> IF x \in Range(items) THEN None ELSE d[x]]

\* Mutant: the copy drops the identifier of an entry.
bbl_MergeEntry_DropsDoi(d, result) ==
    IF ~result.isDict
    THEN [dois |-> d, exc |-> "TypeError"]
    ELSE IF result.text = <<Missing>>
         THEN [dois |-> d, exc |-> "KeyError"]
         ELSE [dois |-> Put(d, result.text, None), exc |-> None]

\* bbl.py:114-119 on one entry of the results.
bbl_MergeEntry(d, result) ==
    IF ~result.isDict
    THEN [dois |-> d, exc |-> "TypeError"]
    ELSE IF result.text = <<Missing>>
         THEN [dois |-> d, exc |-> "KeyError"]
         ELSE IF result.doi # Missing
              THEN [dois |-> Put(d, result.text, result.doi), exc |-> None]
              ELSE [dois |-> Put(d, result.text, None), exc |-> None]

\* What the request and r.json() come to: the encoder rejects the chain, the
\* request fails, the answer is no JSON, has no "results", is no object, or
\* holds a list of results.
PostKinds == {"TypeError", "RequestException", "not_json", "no_results", "not_object", "results"}

\* plaintext.py:83-86 and 94-98 for one chunk and one outcome of the request:
\* the position after it, the exception, the dict, the iterator, the chain and
\* the bodies sent.
post_chunk(kind, d, q, it, b, s) ==
    LET body == ChainItems(b, q, it)
        after == ChainAdvance(b, q, it)
    IN  IF kind = "TypeError"
        THEN [pc |-> "raised", exc |-> "TypeError", dois |-> d, item |-> it, batch |-> b,
              sent |-> s]
        ELSE IF kind = "results"
        THEN [pc |-> "merge", exc |-> None, dois |-> d, item |-> after, batch |-> NoChain,
              sent |-> Append(s, body)]
        ELSE IF kind = "not_object"
        THEN [pc |-> "raised", exc |-> "TypeError", dois |-> d, item |-> after,
              batch |-> NoChain, sent |-> Append(s, body)]
        ELSE [pc |-> "loop", exc |-> None,
              dois |-> SetNone(d, ChainItems(NoChain, q, after)), item |-> after,
              batch |-> NoChain, sent |-> Append(s, body)]

\* bbl.py:109-112 and 120-124 for one chunk and one outcome of the request.
bbl_post_chunk(kind, d, q, it, b, s) ==
    LET body == ChainItems(b, q, it)
        after == ChainAdvance(b, q, it)
    IN  IF kind = "TypeError"
        THEN [pc |-> "raised", exc |-> "TypeError", dois |-> d, item |-> it, batch |-> b,
              sent |-> s]
        ELSE IF kind = "results"
        THEN [pc |-> "merge", exc |-> None, dois |-> d, item |-> after, batch |-> NoChain,
              sent |-> Append(s, body)]
        ELSE IF kind = "not_object"
        THEN [pc |-> "raised", exc |-> "TypeError", dois |-> d, item |-> after,
              batch |-> NoChain, sent |-> Append(s, body)]
        ELSE [pc |-> "loop", exc |-> None,
              dois |-> bbl_SetNone(d, ChainItems(NoChain, q, after)), item |-> after,
              batch |-> NoChain, sent |-> Append(s, body)]

\* What the steps of SpecTwin leave alone.
twinRest ==
    <<file, pep479, plaintext_citations, size, chunks, last, returned, idVars, bblVars,
      cermineVars, downloadVars, findVars, entryVars>>

\* Both functions hold the same list of citations and enter their direct pass,
\* or both enter their CrossRef loop with the same residual queue.
InitTwin ==
    /\ file = NoFile
    /\ pep479 \in BOOLEAN
    /\ \/ /\ plaintext_citations \in
                {PyList(get_plaintext_citations(l)) : l \in SeqUpTo(Lines, MaxCitations)}
          /\ crossref_queue = <<>>
          /\ pc = IF Len(plaintext_citations.val) = 0 THEN "loop" ELSE "direct"
       \/ /\ plaintext_citations = PyList(<<>>)
          /\ crossref_queue \in QueueInputs
          /\ pc = "loop"
    /\ size = CROSSREF_MAX_BATCH_SIZE
    /\ exc = None /\ idx = 1 /\ dois = EmptyDict /\ lookups = <<>>
    /\ item = 0 /\ batch = NoChain
    /\ chunks = <<>> /\ sent = <<>> /\ last = NoLast /\ nres = 0 /\ returned = EmptyDict
    /\ bbl_pc = pc /\ bbl_exc = None /\ bbl_dois = EmptyDict
    /\ bbl_crossref_queue = crossref_queue /\ bbl_lookups = <<>>
    /\ bbl_item = 0 /\ bbl_batch = NoChain /\ bbl_sent = <<>>
    /\ IdsIdle /\ BblIdle /\ CermineIdle /\ DownloadIdle /\ FindIdle /\ EntryIdle

\* plaintext.py:64-80 and bbl.py:91-107 on the same citation.
TwinDirectPass ==
    /\ pc = "direct" /\ bbl_pc = "direct"
    /\ \E m \in doi_extract_from_text(plaintext_citations.val[idx]) :
          LET c == plaintext_citations.val[idx]
              o == DirectIteration(c, m, dois, crossref_queue, lookups)
              b == bbl_DirectIteration(c, m, bbl_dois, bbl_crossref_queue, bbl_lookups)
              following == IF idx = Len(plaintext_citations.val) THEN "loop" ELSE "direct"
          IN  /\ dois' = o.dois /\ crossref_queue' = o.queue /\ lookups' = o.lookups
              /\ IF o.exc # None
                 THEN pc' = "raised" /\ exc' = o.exc /\ idx' = idx
                 ELSE pc' = following /\ exc' = exc /\ idx' = idx + 1
              /\ bbl_dois' = b.dois /\ bbl_crossref_queue' = b.queue
              /\ bbl_lookups' = b.lookups
              /\ IF b.exc # None
                 THEN bbl_pc' = "raised" /\ bbl_exc' = b.exc
                 ELSE bbl_pc' = following /\ bbl_exc' = bbl_exc
    /\ UNCHANGED <<item, batch, sent, nres, bbl_item, bbl_batch, bbl_sent>>
    /\ UNCHANGED twinRest

\* plaintext.py:83 and bbl.py:109: each for statement asks its generator for
\* the next batch (tools.py:108-111).
TwinBatchNext ==
    /\ pc = "loop" /\ bbl_pc = "loop"
    /\ IF BatchHasNext(crossref_queue, item, size)
       THEN /\ batch' = BatchYield(crossref_queue, item, size)
            /\ item' = item + 1
            /\ pc' = "body" /\ exc' = exc
       ELSE /\ batch' = batch /\ item' = item
            /\ IF BatchEndRaises(pep479)
               THEN pc' = "raised" /\ exc' = "RuntimeError"
               ELSE pc' = "returned" /\ exc' = exc
    /\ IF BatchHasNext(bbl_crossref_queue, bbl_item, size)
       THEN /\ bbl_batch' = BatchYield(bbl_crossref_queue, bbl_item, size)
            /\ bbl_item' = bbl_item + 1
            /\ bbl_pc' = "body" /\ bbl_exc' = bbl_exc
       ELSE /\ bbl_batch' = bbl_batch /\ bbl_item' = bbl_item
            /\ IF BatchEndRaises(pep479)
               THEN bbl_pc' = "raised" /\ bbl_exc' = "RuntimeError"
               ELSE bbl_pc' = "returned" /\ bbl_exc' = bbl_exc
    /\ UNCHANGED <<idx, dois, crossref_queue, lookups, sent, nres, bbl_dois,
                   bbl_crossref_queue, bbl_lookups, bbl_sent>>
    /\ UNCHANGED twinRest

\* plaintext.py:84-86 and bbl.py:110-112: each function posts its chunk; the
\* service, given the same body, answers both alike.
TwinPost ==
    /\ pc = "body" /\ bbl_pc = "body"
    /\ \E kind \in PostKinds :
          LET o == post_chunk(kind, dois, crossref_queue, item, batch, sent)
              b == bbl_post_chunk(kind, bbl_dois, bbl_crossref_queue, bbl_item, bbl_batch,
                                  bbl_sent)
          IN  /\ pc' = o.pc /\ dois' = o.dois /\ item' = o.item /\ batch' = o.batch
              /\ sent' = o.sent
              /\ exc' = IF o.exc # None THEN o.exc ELSE exc
              /\ bbl_pc' = b.pc /\ bbl_dois' = b.dois /\ bbl_item' = b.item
              /\ bbl_batch' = b.batch /\ bbl_sent' = b.sent
              /\ bbl_exc' = IF b.exc # None THEN b.exc ELSE bbl_exc
    /\ nres' = 0
    /\ UNCHANGED <<idx, crossref_queue, lookups, bbl_crossref_queue, bbl_lookups>>
    /\ UNCHANGED twinRest

\* plaintext.py:87-93 and bbl.py:113-119 on the next entry of the results.
TwinMergeResult ==
    /\ pc = "merge" /\ bbl_pc = "merge"
    /\ nres < MaxResults
    /\ \E result \in ResultEntries :
          LET o == MergeEntry(dois, result)
              b == bbl_MergeEntry(bbl_dois, result)
          IN  /\ IF o.exc = None
                 THEN dois' = o.dois /\ pc' = "merge" /\ exc' = exc /\ nres' = nres + 1
                 ELSE IF o.exc = "KeyError"
                 THEN /\ dois' = SetNone(o.dois, ChainItems(batch, crossref_queue, item))
                      /\ pc' = "loop" /\ exc' = exc /\ nres' = nres
                 ELSE dois' = o.dois /\ pc' = "raised" /\ exc' = o.exc /\ nres' = nres
              /\ IF b.exc = None
                 THEN bbl_dois' = b.dois /\ bbl_pc' = "merge" /\ bbl_exc' = bbl_exc
                 ELSE IF b.exc = "KeyError"
                 THEN /\ bbl_dois' = bbl_SetNone(b.dois, ChainItems(bbl_batch,
                                                    bbl_crossref_queue, bbl_item))
                      /\ bbl_pc' = "loop" /\ bbl_exc' = bbl_exc
                 ELSE bbl_dois' = b.dois /\ bbl_pc' = "raised" /\ bbl_exc' = b.exc
    /\ UNCHANGED <<idx, crossref_queue, lookups, item, batch, sent, bbl_crossref_queue,
                   bbl_lookups, bbl_item, bbl_batch, bbl_sent>>
    /\ UNCHANGED twinRest

\* The results list is exhausted for both.
TwinMergeEnd ==
    /\ pc = "merge" /\ bbl_pc = "merge"
    /\ pc' = "loop" /\ bbl_pc' = "loop"
    /\ UNCHANGED <<exc, idx, dois, crossref_queue, lookups, item, batch, sent, nres,
                   bbl_exc, bbl_dois, bbl_crossref_queue, bbl_lookups, bbl_item, bbl_batch,
                   bbl_sent>>
    /\ UNCHANGED twinRest

NextTwin ==
    TwinDirectPass \/ TwinBatchNext \/ TwinPost \/ TwinMergeResult \/ TwinMergeEnd

SpecTwin == InitTwin /\ [][NextTwin]_vars

====
